---- MODULE Spec2Model ----
(***************************************************************************)
(* A model of the Gemini adapter of gpt_engineer/core/gemini_ai.py:        *)
(* content normalisation (_process_multimodal_content and the media        *)
(* loaders), conversation translation (_convert_messages_to_gemini),       *)
(* model selection (_select_model), the invocation itself (start / next),  *)
(* the secondary-asset trigger (_handle_generation_requests) and the usage *)
(* ledger; and of the programs around it: the orchestration steps of       *)
(* gpt_engineer/tools/gemini_steps.py, the desktop window of               *)
(* gpt_engineer_gui.py, the runner run_simple.py and the script            *)
(* cleanup_gpt_engineer.py.                                                *)
(*                                                                         *)
(* Python values are tagged with their runtime type, since the code        *)
(* branches on isinstance: PyStr, PyDict (a function from keys to values,  *)
(* so that `"k" in d` is `"k" \in DOMAIN d`), PyList, PyBytes.             *)
(***************************************************************************)
EXTENDS Integers, Sequences, FiniteSets, TLC

VARIABLES
    messages,         \* the caller's conversation: a list of Message objects
    token_usage_log,  \* self.token_usage_log: one entry per recorded invocation
    fs,               \* the environment: local paths that exist, URLs that can be fetched
    ai,               \* the adapter's configuration, set by __init__
    call,             \* what the last start/next did (history of one invocation)
    gemini_messages,  \* the result of the last _convert_messages_to_gemini call
    content,          \* the argument of the last _process_multimodal_content call
    parts,            \* its result
    selected_model,   \* the result of the last _select_model call
    response_text,    \* the argument of the last _handle_generation_requests call
    enhanced,         \* its result, and the subroutines it called
    init_args,        \* the arguments of the last GeminiAI(...) call
    environ,          \* os.environ: the value of GOOGLE_API_KEY, None when unset
    constructed,      \* what that call did
    step,             \* the last orchestration step of tools/gemini_steps.py: what
                      \* it was given, the provider requests it made, its result
    gui,              \* gpt_engineer_gui.py: the buttons that start a generation,
                      \* and the worker threads
    recent,           \* gpt_engineer_gui.py: self.recent_projects, and the last
                      \* add_recent_project call
    run,              \* run_simple.py: the last call of main
    cleanup           \* cleanup_gpt_engineer.py: the directory it works on, and
                      \* what the script did

vars == <<messages, token_usage_log, fs, ai, call, gemini_messages, content, parts,
          selected_model, response_text, enhanced, init_args, environ, constructed,
          step, gui, recent, run, cleanup>>

\* the variables of the functions applied on their own
selectVars == <<selected_model>>
triggerVars == <<response_text, enhanced>>
constructVars == <<init_args, environ, constructed>>
\* the variables of the programs around the adapter
toolVars == <<step, gui, recent, run, cleanup>>

-----------------------------------------------------------------------------
(* Bounds of the model *)

\* most image (video) references in one StructuredContent
MaxRefs == 2
\* most items in one ContentPartList
MaxItems == 2
\* most turns in a conversation handed to next
MaxInitTurns == 2
\* most turns in a conversation handed to _convert_messages_to_gemini alone
MaxTransTurns == 3
\* most start/next calls in one behaviour
MaxCalls == 2
\* the longest conversation given to _select_model on its own
MaxSelectTurns == 2
\* the most paths an asset subroutine is taken to return
MaxAssets == 2
\* the longest conversation handed to next when its prompt is looked at
MaxPromptTurns == 1
\* the provider requests of one step whose outcomes are chosen
MaxStepRequests == 3
\* most generation worker threads started in one behaviour of the window
MaxWorkers == 3
\* most add_recent_project calls in one behaviour
MaxAdds == 3
\* self.recent_projects[:10]
RecentKept == 10

-----------------------------------------------------------------------------
(* Python values *)

PyStr(s) == [ty |-> "str", v |-> s]
PyDict(d) == [ty |-> "dict", v |-> d]
PyList(l) == [ty |-> "list", v |-> l]
PyBytes(b) == [ty |-> "bytes", v |-> b]
PyNone == [ty |-> "None", v |-> "None"]

\* the empty dict {}
EmptyDict == [k \in {} |-> PyNone]

\* isinstance(x, str), isinstance(x, dict), isinstance(x, list)
IsStr(x) == x.ty = "str"
IsDict(x) == x.ty = "dict"
IsList(x) == x.ty = "list"

\* All sequences over S of length at most n
SeqUpTo(S, n) == UNION {[1..k -> S] : k \in 0..n}

-----------------------------------------------------------------------------
(* Strings *)

\* s.startswith(p)
StartsWith(s, p) == Len(s) >= Len(p) /\ SubSeq(s, 1, Len(p)) = p

\* sub in s
Contains(s, sub) ==
    \E i \in 1..(Len(s) - Len(sub) + 1) : SubSeq(s, i, i + Len(sub) - 1) = sub

\* the index of the last occurrence of the one-character string c in s, 0 if none
RECURSIVE LastIndexOf(_, _, _)
LastIndexOf(s, c, i) ==
    IF i = 0 THEN 0
    ELSE IF SubSeq(s, i, i) = c THEN i
    ELSE LastIndexOf(s, c, i - 1)

\* s.split("/")
RECURSIVE SplitSlash(_, _, _)
SplitSlash(s, i, cur) ==
    IF i > Len(s) THEN <<cur>>
    ELSE IF SubSeq(s, i, i) = "/" THEN <<cur>> \o SplitSlash(s, i + 1, "")
    ELSE SplitSlash(s, i + 1, cur \o SubSeq(s, i, i))

\* "/".join(segs)
RECURSIVE JoinSlash(_)
JoinSlash(segs) ==
    IF Len(segs) = 0 THEN ""
    ELSE IF Len(segs) = 1 THEN segs[1]
    ELSE segs[1] \o "/" \o JoinSlash(Tail(segs))

-----------------------------------------------------------------------------
(* pathlib.Path on POSIX *)

\* str(Path(p)): empty and "." components are dropped, slashes collapse
\* (exactly two leading slashes are kept), the empty path is "."
PathStr(p) ==
    LET segs == SelectSeq(SplitSlash(p, 1, ""), LAMBDA x : x # "" /\ x # ".")
        root == IF StartsWith(p, "//") /\ ~StartsWith(p, "///") THEN "//"
                ELSE IF StartsWith(p, "/") THEN "/"
                ELSE ""
        body == JoinSlash(segs)
    IN  IF root = "" /\ body = "" THEN "." ELSE root \o body

\* Path(p).suffix[1:]: the extension of the final component, without its dot
PathSuffix1(p) ==
    LET segs == SplitSlash(PathStr(p), 1, "")
        name == segs[Len(segs)]
        i == LastIndexOf(name, ".", Len(name))
    IN  IF i > 1 /\ i < Len(name) THEN SubSeq(name, i + 1, Len(name)) ELSE ""

\* Path(p).exists() in environment e
PathExists(p, e) == PathStr(p) \in e

\* the files whose open() or read() raises although they exist (a directory,
\* a file without read permission)
Unreadable == {"b.jpg"}

\* open(p, "rb") and read() in environment e do not raise
Readable(p, e) == PathExists(p, e) /\ PathStr(p) \notin Unreadable

\* the bytes read from a file or received from a URL
DataOf(ref) == PyBytes("<" \o ref \o ">")

-----------------------------------------------------------------------------
(* Results of a Python call: a value, or an exception that propagates *)

Ok(x) == [ok |-> TRUE, v |-> x]
Raised(exc) == [ok |-> FALSE, exc |-> exc]

\* f"{x}" for a str or None
Fmt(x) == x.v

\* the keys of a dict, in the order repr lists them (the model's dicts without
\* a "type" key have at most one key, so the order is not a choice)
RECURSIVE ReprItems(_, _)
\* repr(x)
Repr(x) ==
    IF IsStr(x) THEN "'" \o x.v \o "'"
    ELSE IF IsDict(x) THEN "{" \o ReprItems(x.v, DOMAIN x.v) \o "}"
    ELSE Fmt(x)
\* the entry of key k, then the entries of the keys rest
ReprEntry(d, k, rest) ==
    "'" \o k \o "': " \o Repr(d[k])
        \o (IF rest = {} THEN "" ELSE ", " \o ReprItems(d, rest))
ReprFrom(d, keys, k) == ReprEntry(d, k, keys \ {k})
ReprItems(d, keys) ==
    IF keys = {} THEN "" ELSE ReprFrom(d, keys, CHOOSE k \in keys : TRUE)

\* str(x)
Str(x) == IF IsStr(x) THEN x.v ELSE Repr(x)

-----------------------------------------------------------------------------
(* Media resolution: _load_image, _load_image_from_url, _load_video *)

\* as if a failed fetch gave the placeholder of a local image
_load_image_from_url_as_local(image_url, e) ==
    IF IsStr(image_url) /\ image_url.v \in e
    THEN PyDict([mime_type |-> PyStr("image/jpeg"), data |-> DataOf(image_url.v)])
    ELSE PyDict([text |-> PyStr("[Image: " \o Fmt(image_url) \o "]")])

\* GeminiAI._load_image_from_url: requests.get(url) in environment e. Any
\* failure (a URL that cannot be fetched, None for a URL) is caught.
_load_image_from_url(image_url, e) ==
    IF IsStr(image_url) /\ image_url.v \in e
    THEN PyDict([mime_type |-> PyStr("image/jpeg"), data |-> DataOf(image_url.v)])
    ELSE PyDict([text |-> PyStr("[Image URL: " \o Fmt(image_url) \o "]")])

\* GeminiAI._load_image. image_path is rebound to Path(image_path) before the
\* file is looked at, so the placeholder formats the Path, not the argument.
\* An exception of open() or read() is caught and ends in the placeholder.
_load_image(image_path, e) ==
    IF StartsWith(image_path, "http://") \/ StartsWith(image_path, "https://")
    THEN _load_image_from_url(PyStr(image_path), e)
    ELSE IF Readable(image_path, e)
    THEN PyDict([mime_type |-> PyStr("image/" \o PathSuffix1(image_path)),
                 data |-> DataOf(PathStr(image_path))])
    ELSE PyDict([text |-> PyStr("[Image: " \o PathStr(image_path) \o "]")])

\* GeminiAI._load_video
_load_video(video_path, e) ==
    IF Readable(video_path, e)
    THEN PyDict([mime_type |-> PyStr("video/" \o PathSuffix1(video_path)),
                 data |-> DataOf(PathStr(video_path))])
    ELSE PyDict([text |-> PyStr("[Video: " \o PathStr(video_path) \o "]")])

-----------------------------------------------------------------------------
(* Content normalisation: _process_multimodal_content *)

\* d.get(k, default)
Get(d, k, default) == IF k \in DOMAIN d THEN d[k] ELSE default

\* the body of the loop over a content list, for one item: the parts it appends,
\* or the exception it raises. A dict with a "type" other than "text" and
\* "image_url" appends nothing; .get("url") on an "image_url" value that is
\* not a dict raises AttributeError.
ProcessItem(item, e) ==
    IF IsDict(item) /\ "type" \in DOMAIN item.v
    THEN IF item.v["type"] = PyStr("text")
         THEN Ok(<<Get(item.v, "text", PyStr(""))>>)
         ELSE IF item.v["type"] = PyStr("image_url")
         THEN LET iu == Get(item.v, "image_url", PyDict(EmptyDict))
              IN  IF IsDict(iu)
                  THEN Ok(<<_load_image_from_url(Get(iu.v, "url", PyNone), e)>>)
                  ELSE Raised("AttributeError")
         ELSE Ok(<<>>)
    ELSE Ok(<<PyStr(Str(item))>>)

\* the loop over a content list, from item i on, acc being the parts appended
\* so far; r is what the loop body did with item i
RECURSIVE ProcessItems(_, _, _, _)
AfterItem(r, items, i, acc, e) ==
    IF r.ok THEN ProcessItems(items, i + 1, acc \o r.v, e) ELSE r
ProcessItems(items, i, acc, e) ==
    IF i > Len(items) THEN Ok(PyList(acc))
    ELSE AfterItem(ProcessItem(items[i], e), items, i, acc, e)

\* for image_path in content["images"]: parts.append(self._load_image(image_path))
LoadImages(refs, e) == [i \in 1..Len(refs) |-> _load_image(refs[i].v, e)]

\* for video_path in content["videos"]: parts.append(self._load_video(video_path))
LoadVideos(refs, e) == [i \in 1..Len(refs) |-> _load_video(refs[i].v, e)]

\* as if the parts were returned even when there are none
PartsOrList(ps, c) == PyList(ps)

\* return parts if parts else content
PartsOr(ps, c) == IF ps # <<>> THEN PyList(ps) ELSE c

\* as if the videos were resolved before the images
ProcessDictVideosFirst(c, e) ==
    LET d == c.v
        t == IF "text" \in DOMAIN d THEN <<d["text"]>> ELSE <<>>
        im == IF "images" \in DOMAIN d
              THEN LoadImages(d["images"].v, e)
              ELSE <<>>
        vi == IF "videos" \in DOMAIN d
              THEN LoadVideos(d["videos"].v, e)
              ELSE <<>>
    IN  PartsOr(t \o vi \o im, c)

\* the dict branch: text, then one part per image, then one per video; the
\* dict itself when no part was appended
ProcessDict(c, e) ==
    LET d == c.v
        t == IF "text" \in DOMAIN d THEN <<d["text"]>> ELSE <<>>
        im == IF "images" \in DOMAIN d
              THEN LoadImages(d["images"].v, e)
              ELSE <<>>
        vi == IF "videos" \in DOMAIN d
              THEN LoadVideos(d["videos"].v, e)
              ELSE <<>>
    IN  PartsOr(t \o im \o vi, c)

\* GeminiAI._process_multimodal_content in environment e
_process_multimodal_content(c, e) ==
    IF IsStr(c) THEN Ok(c)
    ELSE IF IsDict(c) THEN Ok(ProcessDict(c, e))
    ELSE IF IsList(c) THEN ProcessItems(c.v, 1, <<>>, e)
    ELSE Ok(PyStr(Str(c)))

-----------------------------------------------------------------------------
(* Messages: langchain's SystemMessage, HumanMessage, AIMessage *)

SystemMessage(c) == [role |-> "system", content |-> c]
HumanMessage(c) == [role |-> "human", content |-> c]
AIMessage(c) == [role |-> "ai", content |-> c]

\* next((x for x in seq if <x has the role>), None) over a sequence: the
\* index of the first element with that role, 0 when there is none
FirstWithRole(seq, role) ==
    IF \E i \in 1..Len(seq) : seq[i].role = role
    THEN CHOOSE i \in 1..Len(seq) :
            seq[i].role = role /\ \A j \in 1..(i - 1) : seq[j].role # role
    ELSE 0

-----------------------------------------------------------------------------
(* Conversation translation: _convert_messages_to_gemini *)

\* as if langchain's own role names were passed on
GeminiRoleRaw(m) == m.role

\* the "role" of the entry made from a Human or AI turn
GeminiRole(m) == IF m.role = "human" THEN "user" ELSE "model"

\* the main pass from message i on: System turns are skipped, a Human turn
\* becomes a "user" entry holding the normalised content (wrapped in a list
\* unless it is one), an AI turn a "model" entry holding its content as is
RECURSIVE MainPass(_, _, _, _)
\* as if the normalised content were always wrapped in a list
AsPartsWrapped(c) == <<c>>

\* content if isinstance(content, list) else [content]
AsParts(c) == IF IsList(c) THEN c.v ELSE <<c>>
\* a Human turn whose content normalised to c (or raised)
AfterHuman(c, msgs, i, acc, e) ==
    IF ~c.ok THEN c
    ELSE MainPass(msgs, i + 1, Append(acc, [role |-> GeminiRole(msgs[i]), parts |-> AsParts(c.v)]), e)
MainPass(msgs, i, acc, e) ==
    IF i > Len(msgs) THEN Ok(acc)
    ELSE IF msgs[i].role = "system" THEN MainPass(msgs, i + 1, acc, e)
    ELSE IF msgs[i].role = "human"
    THEN AfterHuman(_process_multimodal_content(msgs[i].content, e), msgs, i, acc, e)
    ELSE IF msgs[i].role = "ai"
    THEN MainPass(msgs, i + 1,
             Append(acc, [role |-> GeminiRole(msgs[i]), parts |-> <<msgs[i].content>>]), e)
    ELSE MainPass(msgs, i + 1, acc, e)

\* as if the last System message were taken
LastSystem(msgs) ==
    IF \E i \in 1..Len(msgs) : msgs[i].role = "system"
    THEN CHOOSE i \in 1..Len(msgs) :
            msgs[i].role = "system" /\ \A j \in (i + 1)..Len(msgs) : msgs[j].role # "system"
    ELSE 0

\* next((msg for msg in messages if isinstance(msg, SystemMessage)), None),
\* as an index, 0 for None
FirstSystem(msgs) == FirstWithRole(msgs, "system")

\* as if the last "user" entry were taken
LastUser(gm) ==
    IF \E i \in 1..Len(gm) : gm[i].role = "user"
    THEN CHOOSE i \in 1..Len(gm) :
            gm[i].role = "user" /\ \A j \in (i + 1)..Len(gm) : gm[j].role # "user"
    ELSE 0

\* next((msg for msg in gemini_messages if msg["role"] == "user"), None),
\* as an index, 0 for None
FirstUser(gm) == FirstWithRole(gm, "user")

\* a prefix without its labels
SystemContentBare(c) == Fmt(c) \o "\n\n"

\* f"System: {system_msg.content}\n\nUser: "
SystemContent(c) == "System: " \o Fmt(c) \o "\n\nUser: "

\* the folding of System message si into "user" entry ui: parts[0] is read
\* without a length check (IndexError on an entry without parts) and is
\* replaced only when it is a str
FoldInto(msgs, gm, si, ui) ==
    IF si = 0 \/ gm = <<>> \/ ui = 0 THEN Ok(gm)
    ELSE IF gm[ui].parts = <<>> THEN Raised("IndexError")
    ELSE IF IsStr(gm[ui].parts[1])
    THEN Ok([gm EXCEPT ![ui].parts[1] =
                PyStr(SystemContent(msgs[si].content) \o gm[ui].parts[1].v)])
    ELSE Ok(gm)

\* the folding of the first System message into the first "user" entry
FoldSystem(msgs, gm) == FoldInto(msgs, gm, FirstSystem(msgs), FirstUser(gm))

\* as if a content list were returned as it is (return content)
SharesContentList(c) == IsList(c)

\* whether the parts list of the entry made from a Human turn of content c is
\* that turn's own list object: it never is, _process_multimodal_content
\* builds a new list (parts = []) and every other value is wrapped in one
SharesContent(c) == FALSE

\* the conversation after _convert_messages_to_gemini returned g: folding
\* assigns to parts[0] of the first "user" entry, which changes the first
\* Human turn as well when the two share the list
MessagesAfterConvert(msgs, g) ==
    LET si == FirstWithRole(msgs, "system")
        hi == FirstWithRole(msgs, "human")
    IN  IF g.ok /\ si # 0 /\ hi # 0 /\ SharesContent(msgs[hi].content)
        THEN [msgs EXCEPT ![hi].content =
                PyList(g.v[FirstWithRole(g.v, "user")].parts)]
        ELSE msgs

\* GeminiAI._convert_messages_to_gemini in environment e
AfterMainPass(msgs, g) == IF g.ok THEN FoldSystem(msgs, g.v) ELSE g
_convert_messages_to_gemini(msgs, e) == AfterMainPass(msgs, MainPass(msgs, 1, <<>>, e))

-----------------------------------------------------------------------------
(* Model selection: _select_model, _contains_visual_content *)

\* as if only "image_url" items counted as visual
_contains_visual_content_url_only(c) ==
    IF IsDict(c) THEN "images" \in DOMAIN c.v \/ "videos" \in DOMAIN c.v
    ELSE IF IsList(c)
    THEN \E i \in 1..Len(c.v) :
            IsDict(c.v[i]) /\ Get(c.v[i].v, "type", PyNone) = PyStr("image_url")
    ELSE FALSE

\* GeminiAI._contains_visual_content
_contains_visual_content(c) ==
    IF IsDict(c) THEN "images" \in DOMAIN c.v \/ "videos" \in DOMAIN c.v
    ELSE IF IsList(c)
    THEN \E i \in 1..Len(c.v) :
            /\ IsDict(c.v[i])
            /\ Get(c.v[i].v, "type", PyNone)
                   \in {PyStr("image_url"), PyStr("image"), PyStr("video")}
    ELSE FALSE

\* GeminiAI._select_model for the adapter a: the attribute of the adapter
\* that is returned
_select_model(msgs, a) ==
    LET has_images ==
            \E i \in 1..Len(msgs) :
                /\ IsDict(msgs[i].content) \/ IsList(msgs[i].content)
                /\ _contains_visual_content(msgs[i].content)
    IN  IF has_images \/ a.enable_multimodal
        THEN IF Contains(a.model_name, "1.5") THEN "multimodal_model"
             ELSE "vision_model"
        ELSE "text_model"

-----------------------------------------------------------------------------
(* Secondary-asset trigger: _handle_generation_requests *)

UpperChars == "ABCDEFGHIJKLMNOPQRSTUVWXYZ"
LowerChars == "abcdefghijklmnopqrstuvwxyz"

\* c.lower() for the upper-case letters
LowerOf ==
    [c \in {SubSeq(UpperChars, i, i) : i \in 1..Len(UpperChars)} |->
        LET i == CHOOSE i \in 1..Len(UpperChars) : SubSeq(UpperChars, i, i) = c
        IN  SubSeq(LowerChars, i, i)]

\* c.lower() for a one-character string
LowerChar(c) == IF c \in DOMAIN LowerOf THEN LowerOf[c] ELSE c

\* s.lower()
RECURSIVE Lower(_)
Lower(s) ==
    IF Len(s) = 0 THEN ""
    ELSE LowerChar(SubSeq(s, 1, 1)) \o Lower(SubSeq(s, 2, Len(s)))

image_keywords ==
    <<"generate image", "create image", "make image", "draw",
      "visualize", "diagram", "chart", "graph", "mockup",
      "ui design", "logo", "icon", "illustration">>

video_keywords ==
    <<"generate video", "create video", "make video", "animation",
      "demo video", "tutorial video", "walkthrough", "presentation">>

\* GeminiAI._should_generate_images
_should_generate_images(response) ==
    LET lowered == Lower(response)
    IN  \E k \in 1..Len(image_keywords) : Contains(lowered, image_keywords[k])

\* as if the video trigger fired on every response
_should_generate_videos_always(response) == TRUE

\* GeminiAI._should_generate_videos
_should_generate_videos(response) ==
    LET lowered == Lower(response)
    IN  \E k \in 1..Len(video_keywords) : Contains(lowered, video_keywords[k])

\* GeminiAI.generate_images_from_response: the placeholder implementation
\* returns no path, also when it fails
generate_images_from_response(response, step_name) == <<>>

\* GeminiAI.generate_videos_from_response: likewise
generate_videos_from_response(response, step_name) == <<>>

\* "".join(f"{pre}{p}{post}" for p in paths)
RECURSIVE JoinRefs(_, _, _)
JoinRefs(paths, pre, post) ==
    IF paths = <<>> THEN ""
    ELSE pre \o Head(paths) \o post \o JoinRefs(Tail(paths), pre, post)

\* as if a section were appended also for an empty list of paths
AppendSectionsAlways(response, generated_images, generated_videos) ==
    response \o "\n\n## Generated Images\n"
        \o JoinRefs(generated_images, "![Generated Image](", ")\n")
        \o "\n\n## Generated Videos\n"
        \o JoinRefs(generated_videos, "[Generated Video](", ")\n")

\* the text _handle_generation_requests returns when the image subroutine
\* gave generated_images and the video subroutine generated_videos (<<>> also
\* when it was not called): a section per non-empty list, images first
AppendSections(response, generated_images, generated_videos) ==
    (IF generated_images # <<>>
     THEN response \o "\n\n## Generated Images\n"
              \o JoinRefs(generated_images, "![Generated Image](", ")\n")
     ELSE response)
    \o (IF generated_videos # <<>>
        THEN "\n\n## Generated Videos\n"
                 \o JoinRefs(generated_videos, "[Generated Video](", ")\n")
        ELSE "")

\* the image subroutine is called
CallsImages(response, a) == a.enable_image_generation /\ _should_generate_images(response)

\* as if the video subroutine were called only when the image one was not
CallsVideosUnlessImages(response, a) ==
    /\ a.enable_video_generation
    /\ _should_generate_videos(response)
    /\ ~(a.enable_image_generation /\ _should_generate_images(response))

\* the video subroutine is called: decided on the response as it was given
CallsVideos(response, a) == a.enable_video_generation /\ _should_generate_videos(response)

\* the subroutines _handle_generation_requests calls, in call order
GenerationCalls(response, a) ==
    (IF CallsImages(response, a) THEN <<"generate_images_from_response">> ELSE <<>>)
    \o (IF CallsVideos(response, a) THEN <<"generate_videos_from_response">> ELSE <<>>)

\* output_dir.mkdir(parents=True, exist_ok=True) of a subroutine that is called
AssetDirs(response, step_name, a) ==
    IF GenerationCalls(response, a) # <<>> THEN {"generated_assets/" \o step_name} ELSE {}

\* GeminiAI._handle_generation_requests for the adapter a
_handle_generation_requests(response, step_name, a) ==
    AppendSections(response,
        IF CallsImages(response, a)
        THEN generate_images_from_response(response, step_name) ELSE <<>>,
        IF CallsVideos(response, a)
        THEN generate_videos_from_response(response, step_name) ELSE <<>>)

-----------------------------------------------------------------------------
(* The invocation: GeminiAI.next and GeminiAI.start *)

\* a call that was not made
NoResult == [ok |-> FALSE, exc |-> "<not called>"]
Called(r) == r.ok \/ r.exc # "<not called>"

\* as if the ledger kept only its latest entry
update_log_latest(log, msgs, answer, step_name) ==
    <<[step_name |-> step_name, n_messages |-> Len(msgs), answer |-> answer]>>

\* the usage ledger's update_log(messages, answer, step_name): one entry more
update_log(log, msgs, answer, step_name) ==
    Append(log, [step_name |-> step_name, n_messages |-> Len(msgs), answer |-> answer])

\* a fallback text that does not embed the exception
fallback_response_plain(e) == "Gemini API is unavailable. Please try again."

\* the text of the Assistant turn appended when the provider call failed
fallback_response(e) == "Error with Gemini API: " \o e \o ". Please try again."

\* bool(prompt): a non-empty str, list or dict
Truthy(prompt) ==
    \/ IsStr(prompt) /\ prompt.v # ""
    \/ IsList(prompt) /\ prompt.v # <<>>
    \/ IsDict(prompt) /\ DOMAIN prompt.v # {}

\* as if the Assistant turn were appended before the usage record is made
InvokeModelAppendsFirst(m1, g, model, step_name, provider, enhanced_response, log) ==
    IF ~g.ok
    THEN [messages |-> m1, raised |-> g.exc, gemini_messages |-> g,
          model |-> "none", path |-> "none", token_usage_log |-> log]
    ELSE IF provider.kind = "ok"
    THEN [messages |-> Append(m1, AIMessage(PyStr(enhanced_response))),
          raised |-> "none", gemini_messages |-> g, model |-> model,
          path |-> "success",
          token_usage_log |->
              update_log(log, Append(m1, AIMessage(PyStr(enhanced_response))),
                         enhanced_response, step_name)]
    ELSE [messages |-> Append(m1, AIMessage(PyStr(fallback_response(provider.text)))),
          raised |-> "none", gemini_messages |-> g, model |-> model,
          path |-> "failure", token_usage_log |-> log]

\* as if the except branch recorded the fallback text in the ledger too
InvokeModelAlwaysLogs(m1, g, model, step_name, provider, enhanced_response, log) ==
    IF ~g.ok
    THEN [messages |-> m1, raised |-> g.exc, gemini_messages |-> g,
          model |-> "none", path |-> "none", token_usage_log |-> log]
    ELSE IF provider.kind = "ok"
    THEN [messages |-> Append(m1, AIMessage(PyStr(enhanced_response))),
          raised |-> "none", gemini_messages |-> g, model |-> model,
          path |-> "success",
          token_usage_log |-> update_log(log, m1, enhanced_response, step_name)]
    ELSE [messages |-> Append(m1, AIMessage(PyStr(fallback_response(provider.text)))),
          raised |-> "none", gemini_messages |-> g, model |-> model,
          path |-> "failure",
          token_usage_log |->
              update_log(log, m1, fallback_response(provider.text), step_name)]

\* the rest of GeminiAI.next once the prompt turn is appended (m1), the
\* request is built (g, or the exception raised while building it) and the
\* model is chosen: the provider call inside try, with its two paths
InvokeModel(m1, g, model, step_name, provider, enhanced_response, log) ==
    IF ~g.ok
    THEN [messages |-> m1, raised |-> g.exc, gemini_messages |-> g,
          model |-> "none", path |-> "none", token_usage_log |-> log]
    ELSE IF provider.kind = "ok"
    THEN [messages |-> Append(m1, AIMessage(PyStr(enhanced_response))),
          raised |-> "none", gemini_messages |-> g, model |-> model,
          path |-> "success",
          token_usage_log |-> update_log(log, m1, enhanced_response, step_name)]
    ELSE [messages |-> Append(m1, AIMessage(PyStr(fallback_response(provider.text)))),
          raised |-> "none", gemini_messages |-> g, model |-> model,
          path |-> "failure", token_usage_log |-> log]

\* the rest of GeminiAI.next once the request g is built from the list m1
\* (lines 156 on)
Converted(m1, g, model, step_name, provider, enhanced_response, log) ==
    InvokeModel(MessagesAfterConvert(m1, g), g, model, step_name, provider,
                enhanced_response, log)

\* as if the prompt turn were appended only after the request is built and
\* the model chosen
GeminiAI_next_prompt_late(msgs, prompt, step_name, provider, a, log, e) ==
    LET m1 == IF Truthy(prompt) THEN Append(msgs, HumanMessage(prompt)) ELSE msgs
        r == InvokeModel(m1, _convert_messages_to_gemini(msgs, e),
                         _select_model(msgs, a), step_name, provider,
                         _handle_generation_requests(provider.text, step_name, a), log)
    IN  r

\* GeminiAI.next on the list msgs, for adapter a with ledger log, in
\* environment e. provider is what model.generate_content and response.text
\* do: [kind |-> "ok", text |-> the response] or [kind |-> "fail", text |-> the
\* exception's message]. The result: the list as the call leaves it, the
\* exception that propagated ("none" when the call returned), the request,
\* the model chosen, which path was taken, and the ledger.
GeminiAI_next(msgs, prompt, step_name, provider, a, log, e) ==
    LET m1 == IF Truthy(prompt) THEN Append(msgs, HumanMessage(prompt)) ELSE msgs
    IN  Converted(m1, _convert_messages_to_gemini(m1, e), _select_model(m1, a),
                  step_name, provider,
                  _handle_generation_requests(provider.text, step_name, a), log)

\* GeminiAI.start: next on the new list [SystemMessage, HumanMessage]
GeminiAI_start(system, user, step_name, provider, a, log, e) ==
    GeminiAI_next(<<SystemMessage(PyStr(system)), HumanMessage(user)>>,
                  PyNone, step_name, provider, a, log, e)

-----------------------------------------------------------------------------
(* Construction: GeminiAI.__init__ *)

\* google_api_key or os.getenv("GOOGLE_API_KEY")
ApiKey(args, env) == IF Truthy(args.google_api_key) THEN args.google_api_key ELSE env

\* the provider client, the three model endpoints and the ledger, in the
\* order __init__ makes them once it has a key
InitEffects ==
    <<"genai.configure", "text_model", "vision_model", "multimodal_model",
      "token_usage_log">>

\* as if the client were configured before the key is looked at
GeminiAI_init_configure_first(args, env) ==
    IF ~Truthy(ApiKey(args, env))
    THEN [raised |-> "ValueError", effects |-> <<"genai.configure">>]
    ELSE [raised |-> "none", effects |-> InitEffects,
          adapter |-> [model_name |-> args.model_name,
                       enable_image_generation |-> args.enable_image_generation,
                       enable_video_generation |-> args.enable_video_generation,
                       enable_multimodal |-> args.enable_multimodal],
          api_key |-> ApiKey(args, env),
          text_model |-> args.model_name,
          vision_model |-> "gemini-1.5-pro",
          multimodal_model |-> "gemini-1.5-pro",
          vision |-> (Contains(args.model_name, "vision") \/ Contains(args.model_name, "1.5")),
          token_usage_log |-> <<>>]

\* GeminiAI.__init__ with the arguments args, GOOGLE_API_KEY being env: the
\* exception raised ("none" when an instance is returned), what was set up
\* outside the instance before that, in order, and the instance's fields
GeminiAI_init(args, env) ==
    IF ~Truthy(ApiKey(args, env))
    THEN [raised |-> "ValueError", effects |-> <<>>]
    ELSE [raised |-> "none", effects |-> InitEffects,
          adapter |-> [model_name |-> args.model_name,
                       enable_image_generation |-> args.enable_image_generation,
                       enable_video_generation |-> args.enable_video_generation,
                       enable_multimodal |-> args.enable_multimodal],
          api_key |-> ApiKey(args, env),
          text_model |-> args.model_name,
          vision_model |-> "gemini-1.5-pro",
          multimodal_model |-> "gemini-1.5-pro",
          vision |-> (Contains(args.model_name, "vision") \/ Contains(args.model_name, "1.5")),
          token_usage_log |-> <<>>]

\* keyword arguments: each key is given (a set of one value) or left out
\* (the empty set)
Given(x) == {x}
Missing == {}

\* kwargs.setdefault(key, d), on the entry of the key
setdefault(entry, d) == IF entry = Missing THEN Given(d) ELSE entry

\* the value a parameter with default d gets
ArgOr(entry, d) == IF entry = Missing THEN d ELSE CHOOSE x \in entry : TRUE

\* GeminiAI(**kw): the parameters take their defaults, and __init__ runs. A
\* model_name that is not a string passes the credential test and then makes
\* '"vision" in model_name' (line 97) raise TypeError, unless
\* genai.GenerativeModel(model_name) has raised it before
GeminiAI_new(kw, env) ==
    LET model_name == ArgOr(kw.model_name, PyStr("gemini-1.5-pro"))
        args == [model_name |-> IF IsStr(model_name) THEN model_name.v ELSE "",
                 google_api_key |-> ArgOr(kw.google_api_key, PyNone),
                 enable_image_generation |-> TRUE,
                 enable_video_generation |-> TRUE,
                 enable_multimodal |-> ArgOr(kw.enable_multimodal, TRUE)]
    IN  IF IsStr(model_name) \/ ~Truthy(ApiKey(args, env))
        THEN GeminiAI_init(args, env)
        ELSE [raised |-> "TypeError", effects |-> <<"genai.configure">>]

\* GeminiMultimodalAI(**kw)
GeminiMultimodalAI_new(kw, env) ==
    GeminiAI_new([kw EXCEPT !.model_name = setdefault(@, PyStr("gemini-1.5-pro")),
                            !.enable_multimodal = setdefault(@, TRUE)], env)

\* create_gemini_ai(model_type, model_name, **kwargs): the class
\* instantiated, and what its construction gave
create_gemini_ai(model_type, model_name, kwargs, env) ==
    IF model_type = "multimodal"
    THEN [cls |-> "GeminiMultimodalAI",
          new |-> GeminiMultimodalAI_new(
                      [model_name |-> Given(model_name),
                       google_api_key |-> kwargs.google_api_key,
                       enable_multimodal |-> kwargs.enable_multimodal], env)]
    ELSE [cls |-> "GeminiAI",
          new |-> GeminiAI_new(
                      [model_name |-> Given(IF Truthy(model_name) THEN model_name
                                            ELSE PyStr("gemini-1.5-pro")),
                       google_api_key |-> kwargs.google_api_key,
                       enable_multimodal |-> kwargs.enable_multimodal], env)]

-----------------------------------------------------------------------------
(* The inputs *)

\* image and video references: local paths (one of them not in pathlib's
\* normal form) and a URL
ImageRefs == {"a.png", "./b.jpg", "http://h/c"}
VideoRefs == {"v.mp4"}
\* what may exist on disk or be fetchable
Files == {"a.png", "b.jpg", "http://h/c", "v.mp4"}

Texts == {"hi"}

\* StructuredContent: a dict with an optional "text", an optional "images"
\* list and an optional "videos" list
DictOf(t, im, vi) ==
    LET keys == (IF t # PyNone THEN {"text"} ELSE {})
                    \cup (IF im # PyNone THEN {"images"} ELSE {})
                    \cup (IF vi # PyNone THEN {"videos"} ELSE {})
    IN  PyDict([k \in keys |-> IF k = "text" THEN t ELSE IF k = "images" THEN im ELSE vi])

RefLists(refs) == {PyList([i \in DOMAIN l |-> PyStr(l[i])]) : l \in SeqUpTo(refs, MaxRefs)}

StructuredContents ==
    {DictOf(t, im, vi) :
        t \in {PyNone} \cup {PyStr(x) : x \in Texts},
        im \in {PyNone} \cup RefLists(ImageRefs),
        vi \in {PyNone} \cup RefLists(VideoRefs)}

\* the items of a ContentPartList
TextItem == PyDict([type |-> PyStr("text"), text |-> PyStr("hi")])
TextItemNoText == PyDict([type |-> PyStr("text")])
ImageUrlItem ==
    PyDict([type |-> PyStr("image_url"), image_url |-> PyDict([url |-> PyStr("http://h/c")])])
ImageUrlItemNoUrl == PyDict([type |-> PyStr("image_url")])
ImageUrlItemStr == PyDict([type |-> PyStr("image_url"), image_url |-> PyStr("http://h/c")])
ImageItem == PyDict([type |-> PyStr("image"), data |-> PyStr("a.png")])
VideoItem == PyDict([type |-> PyStr("video"), data |-> PyStr("v.mp4")])
UntypedItem == PyDict([text |-> PyStr("hi")])
StrItem == PyStr("hi")

Items ==
    {TextItem, TextItemNoText, ImageUrlItem, ImageUrlItemNoUrl, ImageUrlItemStr,
     ImageItem, VideoItem, UntypedItem, StrItem}

ContentPartLists == {PyList(l) : l \in SeqUpTo(Items, MaxItems)}

PlainTexts == {PyStr(""), PyStr("hi")}

\* the Content Value union
Contents == PlainTexts \cup StructuredContents \cup ContentPartLists

\* the adapters __init__ can build
Adapters ==
    [model_name : {"gemini-1.5-pro", "gemini-pro"},
     enable_image_generation : BOOLEAN,
     enable_video_generation : BOOLEAN,
     enable_multimodal : BOOLEAN]

\* the adapters start and next are called on: the responses of Providers
\* hold no video phrase, so the video toggle makes no difference to a call
InvocationAdapters == {a \in Adapters : a.enable_video_generation}

\* the credentials given as an argument, and found in the environment
KeyArgs == {PyNone, PyStr(""), PyStr("key-arg")}
KeyEnvs == {PyNone, PyStr(""), PyStr("key-env")}

\* the arguments of GeminiAI(...)
InitArgs ==
    [model_name : {"gemini-1.5-pro", "gemini-pro", "gemini-pro-vision"},
     google_api_key : KeyArgs,
     enable_image_generation : BOOLEAN,
     enable_video_generation : BOOLEAN,
     enable_multimodal : BOOLEAN]

\* the arguments of create_gemini_ai(...)
CreateArgs ==
    [model_type : {"standard", "multimodal", "vision"},
     model_name : {PyNone, PyStr("gemini-pro"), PyStr("gemini-1.5-pro")},
     kwargs : [google_api_key : {Missing} \cup {Given(k) : k \in KeyArgs},
               enable_multimodal : {Missing, Given(TRUE), Given(FALSE)}]]

\* what the provider does with a request
Providers ==
    {[kind |-> "ok", text |-> "See the diagram"],
     [kind |-> "fail", text |-> "429 quota exceeded"]}

StepNames == {"gemini_gen_code"}
Prompts == {PyNone, PyStr("more")}

\* the prompts of the calls of next that are looked at for their prompt:
\* absent, empty, a text, and a content list holding an image reference
NextPrompts == {PyNone, PyStr(""), PyStr("more"), PyList(<<ImageUrlItem>>)}
SystemTexts == {"You write code"}

\* the user contents of the conversations that are invoked
UserContents ==
    {PyStr("hi"),
     DictOf(PyStr("hi"), PyList(<<PyStr("a.png")>>), PyNone),
     PyList(<<TextItem>>),
     PyList(<<>>)}

\* the turns of the conversations handed to next
InitMessages ==
    {SystemMessage(PyStr("You write code")), HumanMessage(PyStr("hi")),
     HumanMessage(PyList(<<TextItem>>)), HumanMessage(PyList(<<>>))}

\* the turns of the conversations handed to _convert_messages_to_gemini alone
TransMessages ==
    {SystemMessage(PyStr("S1")), SystemMessage(PyStr("S2")), AIMessage(PyStr("ok")),
     HumanMessage(PyStr("hi")),
     HumanMessage(DictOf(PyStr("hi"), PyList(<<PyStr("a.png")>>), PyNone)),
     HumanMessage(DictOf(PyNone, PyList(<<PyStr("a.png")>>), PyNone)),
     HumanMessage(PyDict(EmptyDict)),
     HumanMessage(PyList(<<>>)),
     HumanMessage(PyList(<<ImageUrlItem, TextItem>>)),
     HumanMessage(PyList(<<ImageItem>>))}

\* the response texts _handle_generation_requests is applied to on its own
Responses ==
    {"", "All done.", "Here is a diagram of the architecture", "I will DRAW it",
     "see the Walkthrough", "a chart, then an animation", "Tutorial Video with a logo",
     "## Generated Images"}

\* the path lists an asset subroutine is taken to return
AssetPathLists == SeqUpTo({"g1", "g2"}, MaxAssets)

\* the turns _select_model is applied to on its own
SelectMessages ==
    {SystemMessage(PyStr("S1")), AIMessage(PyStr("ok")), HumanMessage(PyStr("hi")),
     HumanMessage(DictOf(PyStr("hi"), PyNone, PyNone)),
     HumanMessage(DictOf(PyNone, PyList(<<PyStr("a.png")>>), PyNone)),
     HumanMessage(DictOf(PyNone, PyNone, PyList(<<PyStr("v.mp4")>>))),
     HumanMessage(DictOf(PyStr("hi"), PyList(<<>>), PyNone)),
     HumanMessage(PyList(<<TextItem>>)),
     HumanMessage(PyList(<<TextItem, ImageUrlItem>>)),
     HumanMessage(PyList(<<ImageItem>>)),
     HumanMessage(PyList(<<VideoItem>>)),
     HumanMessage(PyList(<<UntypedItem, StrItem>>))}

-----------------------------------------------------------------------------
(* The orchestration steps: gpt_engineer/tools/gemini_steps.py *)

\* s.strip(), for texts whose only whitespace is the blank
RECURSIVE LStrip(_)
LStrip(s) ==
    IF Len(s) > 0 /\ SubSeq(s, 1, 1) = " " THEN LStrip(SubSeq(s, 2, Len(s))) ELSE s
RECURSIVE RStrip(_)
RStrip(s) ==
    IF Len(s) > 0 /\ SubSeq(s, Len(s), Len(s)) = " "
    THEN RStrip(SubSeq(s, 1, Len(s) - 1)) ELSE s
Strip(s) == LStrip(RStrip(s))

\* a file mapping (FilesDict, dict): a function from paths to contents
EmptyFiles == [p \in {} |-> ""]

\* d[k] = v
SetItem(d, k, v) == [p \in DOMAIN d \cup {k} |-> IF p = k THEN v ELSE d[p]]

\* as if update kept the content a path already has
UpdateKeepsFirst(d, u) ==
    [p \in DOMAIN d \cup DOMAIN u |-> IF p \in DOMAIN d THEN d[p] ELSE u[p]]

\* d.update(u)
Update(d, u) ==
    [p \in DOMAIN d \cup DOMAIN u |-> IF p \in DOMAIN u THEN u[p] ELSE d[p]]

\* the text cut at its fences
RECURSIVE SplitFence(_, _, _)
SplitFence(s, i, cur) ==
    IF \A j \in i..(Len(s) - 2) : SubSeq(s, j, j + 2) # "~~~"
    THEN <<cur \o SubSeq(s, i, Len(s))>>
    ELSE LET j == CHOOSE j \in i..(Len(s) - 2) :
                      /\ SubSeq(s, j, j + 2) = "~~~"
                      /\ \A k \in i..(j - 1) : SubSeq(s, k, k + 2) # "~~~"
         IN  <<cur \o SubSeq(s, i, j - 1)>> \o SplitFence(s, j + 3, "")

\* the last word of a text: the file name in front of a fence
LastWord(s) ==
    LET t == Strip(s)
    IN  SubSeq(t, LastIndexOf(t, " ", Len(t)) + 1, Len(t))

\* chat_to_files_dict(chat): the "file name, then fenced content" convention.
\* Every closed fence with a name in front of it gives a file; a later file
\* of the same name replaces an earlier one
RECURSIVE FilesOf(_, _, _)
FilesOf(segs, k, acc) ==
    IF k + 1 > Len(segs) THEN acc
    ELSE FilesOf(segs, k + 2,
             IF LastWord(segs[k]) = "" THEN acc
             ELSE SetItem(acc, LastWord(segs[k]), Strip(segs[k + 1])))
chat_to_files_dict(chat) == FilesOf(SplitFence(chat, 1, ""), 1, EmptyFiles)

\* the keys of a dict, in the order of its iteration
RECURSIVE KeysOf(_)
KeysOf(d) ==
    IF DOMAIN d = {} THEN <<>>
    ELSE LET k == CHOOSE x \in DOMAIN d : TRUE
         IN  <<k>> \o KeysOf([x \in DOMAIN d \ {k} |-> d[x]])

\* Prompt.to_langchain_content(): a text item, then one image_url item per
\* image of the prompt
to_langchain_content(prompt) ==
    PyList(<<PyDict([type |-> PyStr("text"), text |-> PyStr("Request: " \o prompt.text)])>>
           \o (IF Truthy(prompt.image_urls)
               THEN LET ks == KeysOf(prompt.image_urls.v)
                    IN  [i \in 1..Len(ks) |->
                            PyDict([type |-> PyStr("image_url"),
                                    image_url |-> PyDict([url |-> prompt.image_urls.v[ks[i]],
                                                          detail |-> PyStr("low")])])]
               ELSE <<>>))

\* what iterating over prompt.image_urls, a dict from names to URLs, gives
\* the normaliser: the names
ImageNames(prompt) ==
    LET ks == KeysOf(prompt.image_urls.v)
    IN  PyList([i \in 1..Len(ks) |-> PyStr(ks[i])])

\* ai.vision, as __init__ sets it
Vision(a) == Contains(a.model_name, "vision") \/ Contains(a.model_name, "1.5")

\* _setup_gemini_system_prompt: the preprompts, and the asset paragraph
_setup_gemini_system_prompt(generate_assets) ==
    "roadmap generate Useful to know: philosophy"
        \o (IF generate_assets THEN " ENHANCED CAPABILITIES:" ELSE "")

\* _enhance_prompt_with_context
_enhance_prompt_with_context(prompt, a) ==
    IF Truthy(prompt.image_urls) /\ Vision(a)
    THEN [prompt EXCEPT !.text = @ \o " VISUAL CONTEXT:"]
    ELSE prompt

\* What a step runs in, w: the adapter's ledger (log), the file system (fs),
\* the provider requests made so far (requests), the number of start calls
\* (starts) and what the provider does with the successive requests
\* (providers, its last element lasting).
NextProvider(w) ==
    IF Len(w.requests) < Len(w.providers) THEN w.providers[Len(w.requests) + 1]
    ELSE w.providers[Len(w.providers)]

\* as if a request that failed were sent once more
AiStartRetries(r, step_name, provider, a, w) ==
    [raised |-> r.raised,
     chat |-> IF r.raised = "none" THEN Strip(r.messages[Len(r.messages)].content.v)
              ELSE "",
     w |-> [w EXCEPT
              !.log = r.token_usage_log,
              !.fs = IF r.path = "success"
                     THEN @ \cup AssetDirs(provider.text, step_name, a) ELSE @,
              !.requests =
                  IF r.path = "none" THEN @
                  ELSE IF r.path = "failure"
                  THEN @ \o <<[step_name |-> step_name, ok |-> FALSE],
                              [step_name |-> step_name, ok |-> FALSE]>>
                  ELSE Append(@, [step_name |-> step_name, ok |-> TRUE]),
              !.starts = @ + 1]]

\* messages = ai.start(...) of a step, r being what GeminiAI.start did:
\* the exception it raised ("none" when it returned), messages[-1].content
\* stripped, and the step's surroundings afterwards
AiStartOf(r, step_name, provider, a, w) ==
    [raised |-> r.raised,
     chat |-> IF r.raised = "none" THEN Strip(r.messages[Len(r.messages)].content.v)
              ELSE "",
     w |-> [w EXCEPT
              !.log = r.token_usage_log,
              !.fs = IF r.path = "success"
                     THEN @ \cup AssetDirs(provider.text, step_name, a) ELSE @,
              !.requests =
                  IF r.path = "none" THEN @
                  ELSE Append(@, [step_name |-> step_name, ok |-> r.path = "success"]),
              !.starts = @ + 1]]

AiStart(system, user, step_name, a, w) ==
    AiStartOf(GeminiAI_start(system, user, step_name, NextProvider(w), a, w.log, w.fs),
              step_name, NextProvider(w), a, w)

\* _generate_project_assets once the setup guide was asked for (s2)
AfterSetup(s2, assets) ==
    IF s2.raised # "none" THEN [assets |-> assets, w |-> s2.w]
    ELSE [assets |-> SetItem(assets, "SETUP_VISUAL_GUIDE.md", s2.chat), w |-> s2.w]

\* _generate_project_assets once the structure document was asked for (s1)
AfterStructure(s1, a, files_dict, prompt) ==
    IF s1.raised # "none" THEN [assets |-> EmptyFiles, w |-> s1.w]
    ELSE IF {"requirements.txt", "package.json"} \cap DOMAIN files_dict # {}
    THEN AfterSetup(
             AiStart("Create clear setup documentation with visual elements.",
                     PyStr("Create a visual setup guide for this project: " \o prompt.text),
                     "setup_guide", a, s1.w),
             SetItem(EmptyFiles, "PROJECT_STRUCTURE.md", s1.chat))
    ELSE [assets |-> SetItem(EmptyFiles, "PROJECT_STRUCTURE.md", s1.chat), w |-> s1.w]

\* _generate_project_assets: the assets, and the surroundings afterwards.
\* The texts of the prompts are shortened to their first sentence
_generate_project_assets(a, files_dict, prompt, w) ==
    AfterStructure(
        AiStart("Create clear project structure documentation.",
                PyStr("Create a project structure visualization file"),
                "project_structure", a, w),
        a, files_dict, prompt)

\* a step's outcome: its result (or the exception it raised), the mappings of
\* its passes, and the surroundings afterwards
StepRaised(exc, w) == [result |-> Raised(exc), passes |-> <<>>, w |-> w]
OnePass(files, w) == [result |-> Ok(files), passes |-> <<files>>, w |-> w]
TwoPasses(files, later) ==
    [result |-> Ok(Update(files, later.assets)), passes |-> <<files, later.assets>>,
     w |-> later.w]

\* gemini_gen_code once start was called (s); memory.log raises OSError when
\* the log cannot be written
AfterCodeStart(s, a, cls, prompt, generate_assets, memory_ok) ==
    IF s.raised # "none" THEN StepRaised(s.raised, s.w)
    ELSE IF ~memory_ok THEN StepRaised("OSError", s.w)
    ELSE IF generate_assets /\ cls = "GeminiMultimodalAI"
    THEN TwoPasses(chat_to_files_dict(s.chat),
                   _generate_project_assets(a, chat_to_files_dict(s.chat), prompt, s.w))
    ELSE OnePass(chat_to_files_dict(s.chat), s.w)

\* gemini_gen_code(ai, prompt, memory, preprompts_holder, generate_assets),
\* ai being an instance of the class cls
gemini_gen_code(a, cls, prompt, generate_assets, memory_ok, w) ==
    AfterCodeStart(
        AiStart(_setup_gemini_system_prompt(generate_assets),
                to_langchain_content(_enhance_prompt_with_context(prompt, a)),
                "gemini_gen_code", a, w),
        a, cls, prompt, generate_assets, memory_ok)

\* gemini_analyze_images once start was called (s)
AfterAnalysis(s, memory_ok) ==
    IF s.raised # "none"
    THEN OnePass(SetItem(EmptyFiles, "error", s.raised), s.w)
    ELSE IF ~memory_ok
    THEN OnePass(SetItem(SetItem(EmptyFiles, "image_analysis", s.chat), "error", "OSError"),
                 s.w)
    ELSE OnePass(SetItem(EmptyFiles, "image_analysis", s.chat), s.w)

\* as if the adapter's vision capability were not looked at
gemini_analyze_images_any_adapter(a, prompt, memory_ok, w) ==
    IF ~Truthy(prompt.image_urls)
    THEN [result |-> Ok(EmptyFiles), passes |-> <<>>, w |-> w]
    ELSE AfterAnalysis(
             AiStart("You are an expert at analyzing visual designs and extracting technical requirements.",
                     PyDict([text |-> PyStr("Analyze the provided images and extract:"),
                             images |-> ImageNames(prompt)]),
                     "image_analysis", a, w),
             memory_ok)

\* gemini_analyze_images(ai, prompt, memory)
gemini_analyze_images(a, prompt, memory_ok, w) ==
    IF ~Truthy(prompt.image_urls) \/ ~Vision(a)
    THEN [result |-> Ok(EmptyFiles), passes |-> <<>>, w |-> w]
    ELSE AfterAnalysis(
             AiStart("You are an expert at analyzing visual designs and extracting technical requirements.",
                     PyDict([text |-> PyStr("Analyze the provided images and extract:"),
                             images |-> ImageNames(prompt)]),
                     "image_analysis", a, w),
             memory_ok)

\* _generate_documentation_visuals once start was called (s)
AfterArchitecture(s) ==
    IF s.raised # "none" THEN [assets |-> EmptyFiles, w |-> s.w]
    ELSE [assets |-> SetItem(EmptyFiles, "ARCHITECTURE_VISUAL.md", s.chat), w |-> s.w]

\* _generate_documentation_visuals(ai, files_dict, step_name)
_generate_documentation_visuals(a, step_name, w) ==
    AfterArchitecture(
        AiStart("Create clear architectural documentation with visual elements.",
                PyStr("Create a detailed architecture description with ASCII diagrams"),
                step_name \o "_architecture", a, w))

\* gemini_generate_documentation once start was called (s)
AfterDocStart(s, a, include_visuals, memory_ok) ==
    IF s.raised # "none" THEN StepRaised(s.raised, s.w)
    ELSE IF ~memory_ok THEN StepRaised("OSError", s.w)
    ELSE IF include_visuals
    THEN TwoPasses(chat_to_files_dict(s.chat),
                   _generate_documentation_visuals(a, "docs", s.w))
    ELSE OnePass(chat_to_files_dict(s.chat), s.w)

\* gemini_generate_documentation(ai, files_dict, prompt, memory, include_visuals)
gemini_generate_documentation(a, prompt, include_visuals, memory_ok, w) ==
    AfterDocStart(
        AiStart("You are a technical documentation expert. Create clear, comprehensive documentation.",
                PyStr("Generate comprehensive documentation for this project: "
                          \o prompt.text
                          \o (IF include_visuals
                              THEN " Include references to visual assets and diagrams."
                              ELSE "")),
                "documentation_generation", a, w),
        a, include_visuals, memory_ok)

\* gemini_create_tutorials once start was called (s): only a
\* GeminiMultimodalAI has generate_tutorial_video, which returns its path
AfterTutorialStart(s, cls, memory_ok) ==
    IF s.raised # "none" THEN StepRaised(s.raised, s.w)
    ELSE IF ~memory_ok THEN StepRaised("OSError", s.w)
    ELSE IF cls # "GeminiMultimodalAI" THEN StepRaised("AttributeError", s.w)
    ELSE OnePass(SetItem(chat_to_files_dict(s.chat), "tutorial_video.mp4",
                         "Video tutorial available at: generated_assets/tutorial/tutorial.mp4"),
                 s.w)

\* gemini_create_tutorials(ai, files_dict, prompt, memory)
gemini_create_tutorials(a, cls, prompt, memory_ok, w) ==
    AfterTutorialStart(
        AiStart("You are an expert tutorial creator. Make engaging, educational content.",
                PyStr("Create interactive tutorials for this project: " \o prompt.text),
                "tutorial_creation", a, w),
        cls, memory_ok)

\* the inputs of the steps: the adapters and their classes, the prompts
\* (without images, with an empty image dict, with one image), what the
\* provider does with each request of a step
StepAdapters ==
    {a \in Adapters : a.enable_image_generation /\ a.enable_video_generation}
Classes == {"GeminiAI", "GeminiMultimodalAI"}
StepPrompts ==
    {[text |-> "todo app", image_urls |-> u] :
        u \in {PyNone, PyDict(EmptyDict), PyDict("a.png" :> PyStr("http://h/c"))}}
StepProviders ==
    {[kind |-> "ok", text |-> "main.py ~~~print(1)~~~"],
     [kind |-> "ok", text |-> "requirements.txt ~~~flask~~~ PROJECT_STRUCTURE.md ~~~old~~~"],
     [kind |-> "ok", text |-> "ARCHITECTURE_VISUAL.md ~~~old~~~ "],
     [kind |-> "fail", text |-> "429 quota exceeded"]}
ProviderSeqs == [1..MaxStepRequests -> StepProviders]

-----------------------------------------------------------------------------
(* The invocations: start and next called on an adapter *)

NoCall ==
    [op |-> "none", n |-> 0, before |-> <<>>, prompt |-> PyNone, step_name |-> "",
     raised |-> "none", path |-> "none", model |-> "none", provider_text |-> ""]

\* what a call leaves in call: the list it was given, what it did
CallRecord(op, before, prompt, step_name, provider, r) ==
    [op |-> op, n |-> call.n + 1, before |-> before, prompt |-> prompt,
     step_name |-> step_name, raised |-> r.raised, path |-> r.path, model |-> r.model,
     provider_text |-> IF r.path = "none" THEN "" ELSE provider.text]

\* _select_model and _handle_generation_requests were not applied on their own
NotSelected == selected_model = "none"
NotTriggered == response_text = "" /\ enhanced = NoResult

\* no orchestration step has run
NoStep == [op |-> "none"]
\* no window, no recent-projects list, no run of main, no cleanup
NoGui == [generate_btn |-> "none", first_btn |-> "none", threads |-> <<>>]
NoRecent == [op |-> "none"]
NoRun == [op |-> "none"]
NoCleanup == [op |-> "none"]
ToolsIdle ==
    /\ step = NoStep
    /\ gui = NoGui
    /\ recent = NoRecent
    /\ run = NoRun
    /\ cleanup = NoCleanup

\* GeminiAI(...) was not applied on its own
NoArgs == [model_name |-> "", google_api_key |-> PyNone, enable_image_generation |-> TRUE,
           enable_video_generation |-> TRUE, enable_multimodal |-> TRUE]
NotConstructed == init_args = NoArgs /\ environ = PyNone /\ constructed = NoResult

Init ==
    /\ messages \in SeqUpTo(InitMessages, MaxInitTurns)
    /\ token_usage_log = <<>>
    /\ fs \in SUBSET {"a.png"}
    /\ ai \in InvocationAdapters
    /\ call = NoCall
    /\ gemini_messages = NoResult
    /\ content = PyNone
    /\ parts = NoResult
    /\ NotSelected
    /\ NotTriggered
    /\ NotConstructed
    /\ ToolsIdle

\* what a call that left r does: to the ledger, to the caller's variable and,
\* through the asset subroutines, to the file system.
\* next changes the caller's list in place, so a prompt turn stays also when
\* the call raises; start builds its own list, which the caller gets only
\* when the call returns
Record(r, op, before, prompt, step_name, provider) ==
    /\ messages' = IF op = "start" /\ r.raised # "none" THEN messages ELSE r.messages
    /\ token_usage_log' = r.token_usage_log
    /\ gemini_messages' = r.gemini_messages
    /\ call' = CallRecord(op, before, prompt, step_name, provider, r)
    /\ fs' = IF r.path = "success"
             THEN fs \cup AssetDirs(provider.text, step_name, ai)
             ELSE fs

\* messages = ai.next(messages, prompt, step_name=step_name)
CallNext(prompt, step_name, provider) ==
    /\ call.n < MaxCalls
    /\ Record(GeminiAI_next(messages, prompt, step_name, provider, ai,
                            token_usage_log, fs),
              "next", messages, prompt, step_name, provider)
    /\ UNCHANGED <<ai, content, parts, selectVars, triggerVars, constructVars, toolVars>>

\* messages = ai.start(system, user, step_name=step_name)
CallStart(system, user, step_name, provider) ==
    /\ call.n < MaxCalls
    /\ Record(GeminiAI_start(system, user, step_name, provider, ai,
                             token_usage_log, fs),
              "start", <<SystemMessage(PyStr(system)), HumanMessage(user)>>,
              PyNone, step_name, provider)
    /\ UNCHANGED <<ai, content, parts, selectVars, triggerVars, constructVars, toolVars>>

Next ==
    \/ \E prompt \in Prompts, step_name \in StepNames, provider \in Providers :
            CallNext(prompt, step_name, provider)
    \/ \E system \in SystemTexts, user \in UserContents, step_name \in StepNames,
          provider \in Providers :
            CallStart(system, user, step_name, provider)

Spec == Init /\ [][Next]_vars

\* next alone, on short conversations, with every kind of prompt
InitPrompt ==
    /\ messages \in SeqUpTo(InitMessages, MaxPromptTurns)
    /\ token_usage_log = <<>>
    /\ fs \in SUBSET {"a.png"}
    /\ ai \in InvocationAdapters
    /\ call = NoCall
    /\ gemini_messages = NoResult
    /\ content = PyNone
    /\ parts = NoResult
    /\ NotSelected
    /\ NotTriggered
    /\ NotConstructed
    /\ ToolsIdle

NextPrompt ==
    \E prompt \in NextPrompts, step_name \in StepNames, provider \in Providers :
        CallNext(prompt, step_name, provider)

SpecPrompt == InitPrompt /\ [][NextPrompt]_vars

-----------------------------------------------------------------------------
(* Translation alone: _convert_messages_to_gemini applied to a conversation *)

InitTranslate ==
    /\ messages \in SeqUpTo(TransMessages, MaxTransTurns)
    /\ fs \in SUBSET {"a.png", "http://h/c"}
    /\ gemini_messages = NoResult
    /\ token_usage_log = <<>>
    /\ ai = CHOOSE a \in Adapters : TRUE
    /\ call = NoCall
    /\ content = PyNone
    /\ parts = NoResult
    /\ NotSelected
    /\ NotTriggered
    /\ NotConstructed
    /\ ToolsIdle

Translate ==
    /\ gemini_messages = NoResult
    /\ gemini_messages' = _convert_messages_to_gemini(messages, fs)
    /\ UNCHANGED <<messages, token_usage_log, fs, ai, call, content, parts,
                   selectVars, triggerVars, constructVars, toolVars>>

NextTranslate == Translate

SpecTranslate == InitTranslate /\ [][NextTranslate]_vars

-----------------------------------------------------------------------------
(* Normalisation alone: _process_multimodal_content applied to a content value *)

InitNormalize ==
    /\ content \in Contents
    /\ fs \in SUBSET Files
    /\ parts = NoResult
    /\ messages = <<>>
    /\ token_usage_log = <<>>
    /\ ai = CHOOSE a \in Adapters : TRUE
    /\ call = NoCall
    /\ gemini_messages = NoResult
    /\ NotSelected
    /\ NotTriggered
    /\ NotConstructed
    /\ ToolsIdle

Normalize ==
    /\ parts = NoResult
    /\ parts' = _process_multimodal_content(content, fs)
    /\ UNCHANGED <<messages, token_usage_log, fs, ai, call, gemini_messages, content,
                   selectVars, triggerVars, constructVars, toolVars>>

NextNormalize == Normalize

SpecNormalize == InitNormalize /\ [][NextNormalize]_vars

-----------------------------------------------------------------------------
(* Model selection alone: _select_model applied to a conversation *)

InitSelect ==
    /\ messages \in SeqUpTo(SelectMessages, MaxSelectTurns)
    /\ ai \in Adapters
    /\ selected_model = "none"
    /\ fs = {}
    /\ token_usage_log = <<>>
    /\ call = NoCall
    /\ gemini_messages = NoResult
    /\ content = PyNone
    /\ parts = NoResult
    /\ NotTriggered
    /\ NotConstructed
    /\ ToolsIdle

Select ==
    /\ selected_model = "none"
    /\ selected_model' = _select_model(messages, ai)
    /\ UNCHANGED <<messages, token_usage_log, fs, ai, call, gemini_messages, content,
                   parts, triggerVars, constructVars, toolVars>>

NextSelect == Select

SpecSelect == InitSelect /\ [][NextSelect]_vars

-----------------------------------------------------------------------------
(* The trigger alone: _handle_generation_requests applied to a response *)

InitTrigger ==
    /\ response_text \in Responses
    /\ ai \in Adapters
    /\ enhanced = NoResult
    /\ fs = {}
    /\ messages = <<>>
    /\ token_usage_log = <<>>
    /\ call = NoCall
    /\ gemini_messages = NoResult
    /\ content = PyNone
    /\ parts = NoResult
    /\ NotSelected
    /\ NotConstructed
    /\ ToolsIdle

\* enhanced = ai._handle_generation_requests(response_text, step_name)
Trigger(step_name) ==
    /\ enhanced = NoResult
    /\ enhanced' = Ok([text |-> _handle_generation_requests(response_text, step_name, ai),
                       calls |-> GenerationCalls(response_text, ai)])
    /\ fs' = fs \cup AssetDirs(response_text, step_name, ai)
    /\ UNCHANGED <<messages, token_usage_log, ai, call, gemini_messages, content, parts,
                   selectVars, response_text,
                   constructVars, toolVars>>

NextTrigger == \E step_name \in StepNames : Trigger(step_name)

SpecTrigger == InitTrigger /\ [][NextTrigger]_vars

-----------------------------------------------------------------------------
(* Construction alone: GeminiAI(...) *)

InitConstruct ==
    /\ init_args \in InitArgs
    /\ environ \in KeyEnvs
    /\ constructed = NoResult
    /\ ai = CHOOSE a \in Adapters : TRUE
    /\ fs = {}
    /\ messages = <<>>
    /\ token_usage_log = <<>>
    /\ call = NoCall
    /\ gemini_messages = NoResult
    /\ content = PyNone
    /\ parts = NoResult
    /\ NotSelected
    /\ NotTriggered
    /\ ToolsIdle

\* ai = GeminiAI(**init_args): the caller's ai is bound only when an instance
\* is returned
Construct ==
    /\ constructed = NoResult
    /\ constructed' = GeminiAI_init(init_args, environ)
    /\ ai' = IF constructed'.raised = "none" THEN constructed'.adapter ELSE ai
    /\ token_usage_log' = <<>>
    /\ UNCHANGED <<messages, fs, call, gemini_messages, content, parts, selectVars,
                   triggerVars, init_args, environ, toolVars>>

NextConstruct == Construct

SpecConstruct == InitConstruct /\ [][NextConstruct]_vars

\* create_gemini_ai alone
InitCreate ==
    /\ init_args \in CreateArgs
    /\ environ \in KeyEnvs
    /\ constructed = NoResult
    /\ ai = CHOOSE a \in Adapters : TRUE
    /\ fs = {}
    /\ messages = <<>>
    /\ token_usage_log = <<>>
    /\ call = NoCall
    /\ gemini_messages = NoResult
    /\ content = PyNone
    /\ parts = NoResult
    /\ NotSelected
    /\ NotTriggered
    /\ ToolsIdle

\* ai = create_gemini_ai(model_type, model_name, **kwargs)
Create ==
    /\ constructed = NoResult
    /\ constructed' = create_gemini_ai(init_args.model_type, init_args.model_name,
                                       init_args.kwargs, environ)
    /\ ai' = IF constructed'.new.raised = "none" THEN constructed'.new.adapter ELSE ai
    /\ token_usage_log' = <<>>
    /\ UNCHANGED <<messages, fs, call, gemini_messages, content, parts, selectVars,
                   triggerVars, init_args, environ, toolVars>>

NextCreate == Create

SpecCreate == InitCreate /\ [][NextCreate]_vars

-----------------------------------------------------------------------------
(* The orchestration steps, each run once on an adapter *)

InitSteps ==
    /\ ai \in StepAdapters
    /\ step = NoStep
    /\ gui = NoGui
    /\ recent = NoRecent
    /\ run = NoRun
    /\ cleanup = NoCleanup
    /\ fs = {}
    /\ messages = <<>>
    /\ token_usage_log = <<>>
    /\ call = NoCall
    /\ gemini_messages = NoResult
    /\ content = PyNone
    /\ parts = NoResult
    /\ NotSelected
    /\ NotTriggered
    /\ NotConstructed

\* the surroundings a step starts in
StepWorld(providers) ==
    [log |-> token_usage_log, fs |-> fs, requests |-> <<>>, starts |-> 0,
     providers |-> providers]

\* a step that did o was run: the ledger and the file system are as its
\* start calls left them
StepDone(op, cls, prompt, flag, o) ==
    /\ step = NoStep
    /\ step' = [op |-> op, cls |-> cls, prompt |-> prompt, flag |-> flag,
                result |-> o.result, passes |-> o.passes,
                requests |-> o.w.requests, starts |-> o.w.starts]
    /\ token_usage_log' = o.w.log
    /\ fs' = o.w.fs
    /\ UNCHANGED <<messages, ai, call, gemini_messages, content, parts, selectVars,
                   triggerVars, constructVars, gui, recent, run, cleanup>>

GenCode(cls, prompt, generate_assets, memory_ok, providers) ==
    StepDone("gemini_gen_code", cls, prompt, generate_assets,
             gemini_gen_code(ai, cls, prompt, generate_assets, memory_ok,
                             StepWorld(providers)))

AnalyzeImages(cls, prompt, memory_ok, providers) ==
    StepDone("gemini_analyze_images", cls, prompt, FALSE,
             gemini_analyze_images(ai, prompt, memory_ok, StepWorld(providers)))

GenerateDocumentation(cls, prompt, include_visuals, memory_ok, providers) ==
    StepDone("gemini_generate_documentation", cls, prompt, include_visuals,
             gemini_generate_documentation(ai, prompt, include_visuals, memory_ok,
                                           StepWorld(providers)))

CreateTutorials(cls, prompt, memory_ok, providers) ==
    StepDone("gemini_create_tutorials", cls, prompt, FALSE,
             gemini_create_tutorials(ai, cls, prompt, memory_ok, StepWorld(providers)))

NextSteps ==
    \E cls \in Classes, prompt \in StepPrompts, memory_ok \in BOOLEAN,
       providers \in ProviderSeqs :
        \/ \E generate_assets \in BOOLEAN :
                GenCode(cls, prompt, generate_assets, memory_ok, providers)
        \/ AnalyzeImages(cls, prompt, memory_ok, providers)
        \/ \E include_visuals \in BOOLEAN :
                GenerateDocumentation(cls, prompt, include_visuals, memory_ok, providers)
        \/ CreateTutorials(cls, prompt, memory_ok, providers)

SpecSteps == InitSteps /\ [][NextSteps]_vars

-----------------------------------------------------------------------------
(* The window of gpt_engineer_gui.py: its Generate buttons and its workers *)

\* every variable of the adapter and of the steps is idle
AdapterIdle ==
    /\ ai = CHOOSE a \in Adapters : TRUE
    /\ fs = {}
    /\ messages = <<>>
    /\ token_usage_log = <<>>
    /\ call = NoCall
    /\ gemini_messages = NoResult
    /\ content = PyNone
    /\ parts = NoResult
    /\ NotSelected
    /\ NotTriggered
    /\ NotConstructed
    /\ step = NoStep

adapterVars ==
    <<messages, token_usage_log, fs, ai, call, gemini_messages, content, parts,
      selectVars, triggerVars, constructVars, step>>

\* setup_main_tab makes two "Generate Code" buttons with command
\* self.generate_code, both packed and both enabled: the one of line 290,
\* and the one of line 361, which is the one self.generate_btn names from
\* then on. No worker thread runs yet
InitGui ==
    /\ gui = [generate_btn |-> "normal", first_btn |-> "normal", threads |-> <<>>,
              shown |-> "none"]
    /\ recent = NoRecent
    /\ run = NoRun
    /\ cleanup = NoCleanup
    /\ AdapterIdle

\* self.generate_code(), the method the class ends up with (line 1057).
\* valid: an API key, a project folder and a prompt are entered, and the
\* prompt file can be written. Otherwise an error box is shown and nothing
\* else happens. It disables self.generate_btn and starts a worker thread
generate_code(g, valid) ==
    IF ~valid THEN [g EXCEPT !.shown = "error"]
    ELSE [g EXCEPT !.generate_btn = "disabled",
                   !.threads = Append(@, [pc |-> "started", returncode |-> -1]),
                   !.shown = "none"]

\* the user clicks the button self.generate_btn names; a disabled button
\* does not call its command
ClickGenerate(valid) ==
    /\ gui.generate_btn = "normal"
    /\ Len(gui.threads) < MaxWorkers
    /\ gui' = generate_code(gui, valid)
    /\ UNCHANGED <<adapterVars, recent, run, cleanup>>

\* the user clicks the button of line 290
ClickFirst(valid) ==
    /\ gui.first_btn = "normal"
    /\ Len(gui.threads) < MaxWorkers
    /\ gui' = generate_code(gui, valid)
    /\ UNCHANGED <<adapterVars, recent, run, cleanup>>

\* the finally clause of run_generation: the worker ends, and
\* self.generate_btn is enabled again
Finally(g, i) ==
    [g EXCEPT !.generate_btn = "normal", !.threads[i].pc = "finished"]

\* run_generation of worker i up to subprocess.Popen, which starts
\* run_simple.py or raises
WorkerPopen(i, ok) ==
    /\ i \in 1..Len(gui.threads)
    /\ gui.threads[i].pc = "started"
    /\ gui' = IF ok THEN [gui EXCEPT !.threads[i].pc = "running"] ELSE Finally(gui, i)
    /\ UNCHANGED <<adapterVars, recent, run, cleanup>>

\* the subprocess of worker i exits with returncode: on 0 the worker asks
\* whether to extract the files, otherwise it ends
WorkerWait(i, returncode) ==
    /\ i \in 1..Len(gui.threads)
    /\ gui.threads[i].pc = "running"
    /\ gui' = IF returncode = 0
              THEN [gui EXCEPT !.threads[i] = [pc |-> "asking", returncode |-> 0]]
              ELSE Finally([gui EXCEPT !.threads[i].returncode = returncode], i)
    /\ UNCHANGED <<adapterVars, recent, run, cleanup>>

\* the question of worker i is answered (and extract_files has run)
WorkerAnswered(i) ==
    /\ i \in 1..Len(gui.threads)
    /\ gui.threads[i].pc = "asking"
    /\ gui' = Finally(gui, i)
    /\ UNCHANGED <<adapterVars, recent, run, cleanup>>

NextGui ==
    \/ \E valid \in BOOLEAN : ClickGenerate(valid)
    \/ \E valid \in BOOLEAN : ClickFirst(valid)
    \/ \E i \in 1..MaxWorkers, ok \in BOOLEAN : WorkerPopen(i, ok)
    \/ \E i \in 1..MaxWorkers, returncode \in {0, 1} : WorkerWait(i, returncode)
    \/ \E i \in 1..MaxWorkers : WorkerAnswered(i)

SpecGui == InitGui /\ [][NextGui]_vars

-----------------------------------------------------------------------------
(* The recent-projects list of gpt_engineer_gui.py *)

\* l.remove(x): the list without the first occurrence of x
RECURSIVE ListRemove(_, _)
ListRemove(l, x) ==
    IF l = <<>> THEN <<>>
    ELSE IF Head(l) = x THEN Tail(l)
    ELSE <<Head(l)>> \o ListRemove(Tail(l), x)

\* l[:n]
Slice(l, n) == SubSeq(l, 1, IF Len(l) < n THEN Len(l) ELSE n)

\* as if the project were inserted without removing its earlier entry
add_recent_project_keeps_entry(l, project_path) ==
    Slice(<<project_path>> \o l, RecentKept)

\* add_recent_project(project_path) on self.recent_projects = l: the new list
add_recent_project(l, project_path) ==
    Slice(<<project_path>>
              \o (IF \E i \in 1..Len(l) : l[i] = project_path
                  THEN ListRemove(l, project_path) ELSE l),
          RecentKept)

\* the project folders
Projects ==
    {"p01", "p02", "p03", "p04", "p05", "p06", "p07", "p08", "p09", "p10", "p11",
     "p12", "p13"}

\* the lists load_recent_projects may find in the configuration file: none,
\* a short one, a full one, and one longer than the window ever saves
RecentLists ==
    {<<>>,
     <<"p03", "p01", "p02">>,
     <<"p01", "p02", "p03", "p04", "p05", "p06", "p07", "p08", "p09", "p10">>,
     <<"p12", "p11", "p10", "p09", "p08", "p07", "p06", "p05", "p04", "p03", "p02",
       "p01">>}

InitRecent ==
    /\ recent \in {[op |-> "load", list |-> l, before |-> l, added |-> "", n |-> 0] :
                      l \in RecentLists}
    /\ gui = NoGui
    /\ run = NoRun
    /\ cleanup = NoCleanup
    /\ AdapterIdle

\* self.add_recent_project(project_path)
AddRecent(project_path) ==
    /\ recent.n < MaxAdds
    /\ recent' = [op |-> "add", list |-> add_recent_project(recent.list, project_path),
                  before |-> recent.list, added |-> project_path, n |-> recent.n + 1]
    /\ UNCHANGED <<adapterVars, gui, run, cleanup>>

NextRecent == \E project_path \in Projects : AddRecent(project_path)

SpecRecent == InitRecent /\ [][NextRecent]_vars

-----------------------------------------------------------------------------
(* run_simple.py: main *)

\* setup_comprehensive_env: os.environ after the assignments the lines of
\* the .env file give (dotenv: the keys and values of those lines)
setup_comprehensive_env(env, dotenv) ==
    [k \in DOMAIN env |-> IF k \in DOMAIN dotenv THEN PyStr(dotenv[k]) ELSE env[k]]

\* os.environ.get('GOOGLE_API_KEY') or os.environ.get('GEMINI_API_KEY')
RunApiKey(env) ==
    IF Truthy(env["GOOGLE_API_KEY"]) THEN env["GOOGLE_API_KEY"] ELSE env["GEMINI_API_KEY"]

\* as if the message were searched as it is
IsTransportErrorExact(msg) == Contains(msg, "grpc") \/ Contains(msg, "timeout")

\* 'grpc' in error_msg or 'timeout' in error_msg, for error_msg = str(e).lower()
IsTransportError(msg) ==
    Contains(Lower(msg), "grpc") \/ Contains(Lower(msg), "timeout")

\* run_with_subprocess_fallback(project_path): the return code of the
\* subprocess, 1 when the script cannot be written or started
run_with_subprocess_fallback(fallback) ==
    IF fallback.kind = "exited" THEN fallback.returncode ELSE 1

\* main(), with sys.argv of length argc. direct is what app() does: it
\* returns, or raises UnicodeEncodeError, an Exception with a message, or
\* an exception that is no Exception (KeyboardInterrupt, SystemExit).
\* The result: the runs attempted, in order, and the value returned or the
\* exception that leaves main
main(argc, env, dotenv, direct, fallback) ==
    IF argc < 2 THEN [events |-> <<>>, returned |-> Ok(1)]
    ELSE IF ~Truthy(RunApiKey(setup_comprehensive_env(env, dotenv)))
    THEN [events |-> <<>>, returned |-> Ok(1)]
    ELSE IF direct.kind = "returned" THEN [events |-> <<"direct">>, returned |-> Ok(0)]
    ELSE IF direct.kind = "UnicodeEncodeError"
    THEN [events |-> <<"direct", "fallback">>,
          returned |-> Ok(run_with_subprocess_fallback(fallback))]
    ELSE IF direct.kind = "Exception"
    THEN IF IsTransportError(direct.msg)
         THEN [events |-> <<"direct", "fallback">>,
               returned |-> Ok(run_with_subprocess_fallback(fallback))]
         ELSE [events |-> <<"direct">>, returned |-> Ok(1)]
    ELSE [events |-> <<"direct">>, returned |-> Raised(direct.kind)]

\* the inputs of main
EnvValues == {PyNone, PyStr(""), PyStr("key")}
Environs == [{"GOOGLE_API_KEY", "GEMINI_API_KEY"} -> EnvValues]
DotEnvs ==
    {<<>>, "GOOGLE_API_KEY" :> "key-file", "GOOGLE_API_KEY" :> "",
     "GEMINI_API_KEY" :> "key-file"}
DirectRuns ==
    {[kind |-> "returned", msg |-> ""],
     [kind |-> "UnicodeEncodeError", msg |-> "'charmap' codec can't encode"],
     [kind |-> "KeyboardInterrupt", msg |-> ""]}
        \cup {[kind |-> "Exception", msg |-> m] :
                 m \in {"gRPC channel closed", "Timeout of 60.0s exceeded", "request timeout",
                        "grpc unavailable", "invalid API key"}}
Fallbacks ==
    {[kind |-> "exited", returncode |-> c] : c \in {0, 1, 2}}
        \cup {[kind |-> "OSError", returncode |-> 0]}

InitRun ==
    /\ run = NoRun
    /\ gui = NoGui
    /\ recent = NoRecent
    /\ cleanup = NoCleanup
    /\ AdapterIdle

\* exit_code = main()
Main(argc, env, dotenv, direct, fallback) ==
    /\ run = NoRun
    /\ run' = [op |-> "main", argc |-> argc, env |-> env, dotenv |-> dotenv,
               direct |-> direct, fallback |-> fallback,
               did |-> main(argc, env, dotenv, direct, fallback)]
    /\ UNCHANGED <<adapterVars, gui, recent, cleanup>>

NextRun ==
    \E argc \in {1, 2}, env \in Environs, dotenv \in DotEnvs, direct \in DirectRuns,
       fallback \in Fallbacks :
        Main(argc, env, dotenv, direct, fallback)

SpecRun == InitRun /\ [][NextRun]_vars

-----------------------------------------------------------------------------
(* cleanup_gpt_engineer.py *)

\* A path below base_dir is the sequence of its components, and the disk a
\* function from the paths that exist to "file" or "dir".
files_to_remove ==
    <<"README.md", "README_GEMINI.md", "WINDOWS_README.md", "ROADMAP.md",
      "Acknowledgements.md", "DISCLAIMER.md", "GOVERNANCE.md", "TERMS_OF_USE.md",
      "GEMINI_README.md", ".pre-commit-config.yaml", ".readthedocs.yaml",
      "citation.cff", "sweep.yaml", "tox.ini", "Makefile", "docker-compose.yml",
      ".dockerignore", "test_gemini_integration.py",
      "gpt_engineer_complete_flow.mmd", "gpt_engineer_improvements.mmd",
      ".env.example", ".env.local", ".env.template", ".env.windows">>

\* base_dir / dir_name, for each dir_name of the list
dirs_to_remove ==
    <<<<"docs">>, <<".github">>, <<"docker">>, <<"scripts">>, <<"tests">>,
      <<"projects", "example">>, <<"projects", "example-improve">>,
      <<"projects", "example-vision">>, <<"projects", "lovable-competitor">>,
      <<"projects", "project_20250802_183443">>, <<"projects", "SAMPLETEST">>,
      <<"projects", "test_runnable">>>>

essential_files ==
    <<"pyproject.toml", "poetry.lock", "LICENSE", "MANIFEST.in", ".gitignore",
      ".env", ".env.gemini", "run_gemini_safe.py", "run_gemini.bat",
      "run_with_gemini.py", "run_any_file.py">>

essential_dirs == <<"gpt_engineer", "analysis", ".gpteng">>

\* p is q or lies below q
Under(p, q) == Len(p) >= Len(q) /\ SubSeq(p, 1, Len(q)) = q

\* the disk without p and everything below it
TreeRemoved(disk, p) == [q \in {r \in DOMAIN disk : ~Under(r, p)} |-> disk[q]]

\* file_path.unlink() raises: the file is locked, or the path is a directory
UnlinkRaises(disk, locked, p) == p \in locked \/ disk[p] # "file"

\* shutil.rmtree(dir_path) raises: the path is no directory, or something in
\* the tree is locked (the tree is then modelled as left whole)
RmtreeRaises(disk, locked, p) ==
    disk[p] # "dir" \/ \E q \in locked : q \in DOMAIN disk /\ Under(q, p)

\* the loop over files_to_remove from index i on, as if the first failure
\* ended the loop
RECURSIVE RemoveFilesStopping(_, _, _)
RemoveFilesStopping(st, locked, i) ==
    IF i > Len(files_to_remove) THEN st
    ELSE IF <<files_to_remove[i]>> \notin DOMAIN st.disk
    THEN RemoveFilesStopping(st, locked, i + 1)
    ELSE IF UnlinkRaises(st.disk, locked, <<files_to_remove[i]>>)
    THEN [st EXCEPT !.errors = @ + 1]
    ELSE RemoveFilesStopping(
             [st EXCEPT !.disk = TreeRemoved(@, <<files_to_remove[i]>>)], locked, i + 1)

\* for file_name in files_to_remove, from index i on: st holds the disk and
\* len(errors)
RECURSIVE RemoveFiles(_, _, _)
RemoveFiles(st, locked, i) ==
    IF i > Len(files_to_remove) THEN st
    ELSE IF <<files_to_remove[i]>> \notin DOMAIN st.disk
    THEN RemoveFiles(st, locked, i + 1)
    ELSE IF UnlinkRaises(st.disk, locked, <<files_to_remove[i]>>)
    THEN RemoveFiles([st EXCEPT !.errors = @ + 1], locked, i + 1)
    ELSE RemoveFiles(
             [st EXCEPT !.disk = TreeRemoved(@, <<files_to_remove[i]>>)], locked, i + 1)

\* for dir_name in dirs_to_remove, from index i on
RECURSIVE RemoveDirs(_, _, _)
RemoveDirs(st, locked, i) ==
    IF i > Len(dirs_to_remove) THEN st
    ELSE IF dirs_to_remove[i] \notin DOMAIN st.disk
    THEN RemoveDirs(st, locked, i + 1)
    ELSE IF RmtreeRaises(st.disk, locked, dirs_to_remove[i])
    THEN RemoveDirs([st EXCEPT !.errors = @ + 1], locked, i + 1)
    ELSE RemoveDirs([st EXCEPT !.disk = TreeRemoved(@, dirs_to_remove[i])], locked, i + 1)

\* the directories the loop over projects_dir.iterdir() calls rmtree on
ProjectItems(disk) ==
    {p \in DOMAIN disk :
        Len(p) = 2 /\ p[1] = "projects" /\ disk[p] = "dir" /\ p[2] # "analysis"}

\* the directories the walk over base_dir calls rmtree on
PycacheDirs(disk) ==
    {p \in DOMAIN disk : disk[p] = "dir" /\ p[Len(p)] = "__pycache__"}

\* the disk after rmtree was called on each of the targets, none of which
\* lies below another; a call that raises leaves its tree
RemoveEach(disk, locked, targets) ==
    [q \in {r \in DOMAIN disk :
               \A t \in targets : Under(r, t) => RmtreeRaises(disk, locked, t)}
        |-> disk[q]]

\* the number of targets on which rmtree raises
Failures(disk, locked, targets) ==
    Cardinality({t \in targets : RmtreeRaises(disk, locked, t)})

\* the loop over projects_dir.iterdir(); iterdir raises when projects is no
\* directory, and the exception leaves cleanup_gpt_engineer
CleanProjects(st, locked) ==
    IF <<"projects">> \notin DOMAIN st.disk THEN st
    ELSE IF st.disk[<<"projects">>] # "dir" THEN [st EXCEPT !.raised = TRUE]
    ELSE [st EXCEPT !.disk = RemoveEach(@, locked, ProjectItems(st.disk)),
                    !.errors = @ + Failures(st.disk, locked, ProjectItems(st.disk))]

\* the walk that removes the __pycache__ directories; its failures are
\* printed and not added to errors
CleanPycache(st, locked) ==
    IF st.raised THEN st
    ELSE [st EXCEPT !.disk = RemoveEach(@, locked, PycacheDirs(st.disk))]

\* cleanup_gpt_engineer(): the disk it leaves, len(errors), and whether an
\* exception left it
cleanup_gpt_engineer(disk, locked) ==
    CleanPycache(
        CleanProjects(
            RemoveDirs(
                RemoveFiles([disk |-> disk, errors |-> 0, raised |-> FALSE], locked, 1),
                locked, 1),
            locked),
        locked)

\* the exit status after cleanup_gpt_engineer left st
CleanupExit(st) == IF st.raised \/ st.errors > 0 THEN 1 ELSE 0

\* the __main__ block: the answer to "Continue with cleanup? (y/N): "
CleanupMain(answer, disk, locked, o) ==
    IF Strip(Lower(answer)) \in {"y", "yes"}
    THEN [ran |-> TRUE, after |-> o.disk, errors |-> o.errors, raised |-> o.raised,
          exit |-> CleanupExit(o)]
    ELSE [ran |-> FALSE, after |-> disk, errors |-> 0, raised |-> FALSE, exit |-> 0]

\* the inputs: what is always on the disk, what may be, what may be locked
BaseDisk ==
    (<<".env">> :> "file") @@ (<<"LICENSE">> :> "file") @@ (<<"notes.txt">> :> "file")
    @@ (<<"gpt_engineer">> :> "dir") @@ (<<"gpt_engineer", "main.py">> :> "file")
    @@ (<<"gpt_engineer", "__pycache__">> :> "dir")
    @@ (<<"gpt_engineer", "__pycache__", "main.pyc">> :> "file")
    @@ (<<"analysis">> :> "dir") @@ (<<".gpteng">> :> "dir")
    @@ (<<"README.md">> :> "file") @@ (<<"Makefile">> :> "file")
    @@ (<<"docs">> :> "dir") @@ (<<"docs", "index.md">> :> "file")
OptionalTrees ==
    {(<<"tests">> :> "dir") @@ (<<"tests", "__pycache__">> :> "dir"),
     (<<"projects">> :> "file"),
     (<<"projects">> :> "dir") @@ (<<"projects", "analysis">> :> "dir")
        @@ (<<"projects", "analysis", "__pycache__">> :> "dir")
        @@ (<<"projects", "example">> :> "dir")
        @@ (<<"projects", "example", "main.py">> :> "file")
        @@ (<<"projects", "mine">> :> "dir")
        @@ (<<"projects", "notes.txt">> :> "file"),
     (<<".env.local">> :> "dir"),
     (<<"docker">> :> "file")}
Lockable ==
    {<<"README.md">>, <<"docs">>, <<"projects", "example">>, <<"projects", "mine">>,
     <<"gpt_engineer", "__pycache__">>}
Answers == {"y", "yes", "Y", " YES ", "", "n", "no", "yes!"}

\* the base disk with the trees of ts added, in turn
RECURSIVE DiskWith(_)
DiskWith(ts) ==
    IF ts = {} THEN BaseDisk
    ELSE LET t == CHOOSE x \in ts : TRUE IN t @@ DiskWith(ts \ {t})
Disks ==
    {DiskWith(ts) : ts \in {x \in SUBSET OptionalTrees :
        ~({(<<"projects">> :> "file")} \subseteq x /\ Cardinality(
            {t \in x : <<"projects">> \in DOMAIN t}) > 1)}}

InitCleanup ==
    /\ cleanup = NoCleanup
    /\ gui = NoGui
    /\ recent = NoRecent
    /\ run = NoRun
    /\ AdapterIdle

\* python cleanup_gpt_engineer.py, with the answer typed at the prompt
CleanupScript(answer, disk, locked) ==
    /\ cleanup = NoCleanup
    /\ cleanup' = [op |-> "main", answer |-> answer, before |-> disk, locked |-> locked,
                   did |-> CleanupMain(answer, disk, locked,
                                       cleanup_gpt_engineer(disk, locked))]
    /\ UNCHANGED <<adapterVars, gui, recent, run>>

NextCleanup ==
    \E answer \in Answers, disk \in Disks, locked \in SUBSET Lockable :
        CleanupScript(answer, disk, locked)

SpecCleanup == InitCleanup /\ [][NextCleanup]_vars

-----------------------------------------------------------------------------
(* Properties of the invocation, under Spec *)

\* the turn a non-empty prompt adds to the list given to next
PromptTurn == IF Truthy(call.prompt) THEN <<HumanMessage(call.prompt)>> ELSE <<>>

\* the turns the last call added to the list it was given
NewTurns == SubSeq(messages, Len(call.before) + 1, Len(messages))

\* the list the last call was given is a prefix of the conversation
BeforeKept ==
    /\ Len(messages) >= Len(call.before)
    /\ SubSeq(messages, 1, Len(call.before)) = call.before

\* C1: when the provider call fails, start/next does not raise; the
\* conversation it returns is the one it was given, every turn unchanged and
\* in its position, with exactly one new Assistant turn, which comes last and
\* whose text contains "Error" and the provider's error message.
C1_FailureAppendsErrorTurn ==
    call.path = "failure" =>
        /\ call.raised = "none"
        /\ BeforeKept
        /\ Len(NewTurns) >= 1
        /\ Cardinality({i \in 1..Len(NewTurns) : NewTurns[i].role = "ai"}) = 1
        /\ LET last == messages[Len(messages)]
           IN  /\ last.role = "ai"
               /\ IsStr(last.content)
               /\ Contains(last.content.v, "Error")
               /\ Contains(last.content.v, call.provider_text)

\* the end-to-end scenario: start on [System, User] with a failing provider
\* gives three turns
C1_Witness ==
    /\ call.op = "start"
    /\ call.path = "failure"
    /\ Len(messages) = 3
    /\ messages[1].role = "system"
    /\ messages[2].role = "human"

\* C2: start/next returns normally for every conversation whose turns carry
\* any value of the Content Value union, the empty ones included: nothing
\* raises to the caller.
C2_NeverRaises == call.raised = "none"

\* C3 as stated: every invocation returns the turns it was given, unchanged
\* and in order, followed by exactly one new turn, an Assistant turn.
C3_ExactlyOneNewTurn ==
    call.op # "none" =>
        /\ call.raised = "none"
        /\ BeforeKept
        /\ Len(NewTurns) = 1
        /\ NewTurns[1].role = "ai"

\* C3 as amended: an invocation that returns, returns the turns it was given,
\* unchanged and in order, then a User turn holding the prompt when next got a
\* non-empty prompt, then exactly one new Assistant turn; a next that raises
\* leaves its list as the turns it was given, followed only by that prompt
\* turn (a start that raises returns no list). Translation and model
\* selection change no existing turn.
C3_GivenTurnsKept ==
    call.op # "none" =>
        IF call.raised = "none"
        THEN /\ BeforeKept
             /\ Len(NewTurns) = Len(PromptTurn) + 1
             /\ SubSeq(NewTurns, 1, Len(PromptTurn)) = PromptTurn
             /\ NewTurns[Len(NewTurns)].role = "ai"
        ELSE call.op = "next" => messages = call.before \o PromptTurn

\* a next with a prompt returned, on a conversation whose System turn was
\* folded into a user turn made from a content list
C3_Witness ==
    /\ call.op = "next"
    /\ call.raised = "none"
    /\ Truthy(call.prompt)
    /\ Len(NewTurns) = 2
    /\ \E i \in 1..Len(call.before) : call.before[i].role = "system"
    /\ \E i \in 1..Len(call.before) :
            /\ call.before[i].role = "human"
            /\ IsList(call.before[i].content)
            /\ \A j \in 1..(i - 1) : call.before[j].role # "human"
    /\ \E i \in 1..Len(gemini_messages.v) :
            /\ gemini_messages.v[i].role = "user"
            /\ IsStr(gemini_messages.v[i].parts[1])
            /\ StartsWith(gemini_messages.v[i].parts[1].v, "System: ")

-----------------------------------------------------------------------------
(* Properties of translation, under SpecTranslate *)

\* the System turns of the conversation, as indices
SystemTurns == {i \in 1..Len(messages) : messages[i].role = "system"}
HumanTurns == {i \in 1..Len(messages) : messages[i].role = "human"}

\* the conversation without the turns whose index is in drop
RECURSIVE Without(_, _, _)
Without(msgs, drop, i) ==
    IF i > Len(msgs) THEN <<>>
    ELSE (IF i \in drop THEN <<>> ELSE <<msgs[i]>>) \o Without(msgs, drop, i + 1)

\* some text part of the request gm contains the text t
TextAppears(gm, t) ==
    \E i \in 1..Len(gm) : \E j \in 1..Len(gm[i].parts) :
        IsStr(gm[i].parts[j]) /\ Contains(gm[i].parts[j].v, t)

\* the first of a non-empty set of indices
First(S) == CHOOSE i \in S : \A j \in S : i <= j

\* the "user" entries of a request, as indices
UserEntries(gm) == {i \in 1..Len(gm) : gm[i].role = "user"}

\* C4: every entry of the translated sequence has role "user" or "model",
\* whatever the number and position of System turns in the conversation.
C4_NoSystemRole ==
    gemini_messages.ok =>
        \A i \in 1..Len(gemini_messages.v) : gemini_messages.v[i].role \in {"user", "model"}

\* a conversation with a System turn on either side of its one other turn
C4_Witness ==
    /\ gemini_messages.ok
    /\ Cardinality(SystemTurns) = 2
    /\ Len(gemini_messages.v) = 1
    /\ messages[2].role # "system"

\* exactly one System turn and at least one User turn, translated
OneSystemAndUser ==
    /\ Called(gemini_messages)
    /\ Cardinality(SystemTurns) = 1
    /\ HumanTurns # {}

\* the parts the first User turn normalises to
FirstUserParts ==
    AsParts(_process_multimodal_content(messages[First(HumanTurns)].content, fs).v)

\* the prefix made from the text of System turn i
PrefixOf(i) == "System: " \o messages[i].content.v \o "\n\nUser: "

C6_FoldChangesOnlyLeadingText ==
    gemini_messages.ok =>
        LET g == gemini_messages.v
            base == _convert_messages_to_gemini(Without(messages, SystemTurns, 1), fs)
        IN  /\ base.ok
            /\ Len(base.v) = Len(g)
            /\ \A i \in 1..Len(g) :
                /\ g[i].role = base.v[i].role
                /\ Len(g[i].parts) = Len(base.v[i].parts)
                /\ \A j \in 1..Len(g[i].parts) :
                      g[i].parts[j] # base.v[i].parts[j] =>
                          /\ i = First(UserEntries(g))
                          /\ j = 1
                          /\ IsStr(base.v[i].parts[j])
                          /\ IsStr(g[i].parts[j])

\* a conversation with a System turn whose first User turn starts with a
\* media blob, and with a later User turn that starts with text
C6_Witness ==
    /\ gemini_messages.ok
    /\ SystemTurns # {}
    /\ Cardinality(UserEntries(gemini_messages.v)) = 2
    /\ LET g == gemini_messages.v
       IN  /\ g[First(UserEntries(g))].parts # <<>>
           /\ IsDict(g[First(UserEntries(g))].parts[1])
           /\ "mime_type" \in DOMAIN g[First(UserEntries(g))].parts[1].v
           /\ \E i \in UserEntries(g) : g[i].parts # <<>> /\ g[i].parts[1] = PyStr("hi")

\* C7: with more than one System turn, only the first one is folded: the
\* request is the one of the conversation without the later System turns
\* (the same exception when that one raises), and the text of a later System
\* turn appears nowhere in it.
C7_OnlyFirstSystemFolded ==
    (Called(gemini_messages) /\ Cardinality(SystemTurns) >= 2) =>
        LET later == SystemTurns \ {First(SystemTurns)}
            one == _convert_messages_to_gemini(Without(messages, later, 1), fs)
        IN  /\ gemini_messages.ok = one.ok
            /\ gemini_messages.ok =>
                /\ gemini_messages.v = one.v
                /\ \A i \in later :
                      messages[i].content # messages[First(SystemTurns)].content =>
                          ~TextAppears(gemini_messages.v, messages[i].content.v)
            /\ ~gemini_messages.ok => gemini_messages.exc = one.exc

\* two System turns of different texts before a User turn of plain text:
\* the first one's text is in the request
C7_Witness ==
    /\ gemini_messages.ok
    /\ Cardinality(SystemTurns) = 2
    /\ messages[1].role = "system"
    /\ messages[2].role = "system"
    /\ messages[1].content # messages[2].content
    /\ TextAppears(gemini_messages.v, PrefixOf(1))

-----------------------------------------------------------------------------
(* Properties of normalisation, under SpecNormalize *)

\* the references a StructuredContent carries under key k
RefsOf(c, k) == IF k \in DOMAIN c.v THEN c.v[k].v ELSE <<>>

\* the number of text parts a StructuredContent yields
TextCount(c) == IF "text" \in DOMAIN c.v THEN 1 ELSE 0

\* C8 as stated: for every ContentPartList, normalize yields a part sequence
\* of the same length as the input item sequence, its i-th part produced from
\* the i-th item.
C8_SameLengthAndOrder ==
    (IsList(content) /\ Called(parts)) =>
        /\ parts.ok
        /\ Len(parts.v.v) = Len(content.v)
        /\ \A i \in 1..Len(content.v) :
              /\ ProcessItem(content.v[i], fs).ok
              /\ ProcessItem(content.v[i], fs).v = <<parts.v.v[i]>>

\* C9: a StructuredContent with a text or a reference normalises to the text
\* part if a text is present, then one part per image reference in reference
\* order, then one part per video reference in reference order; with only a
\* text it normalises to exactly that one text part.
C9_TextImagesVideos ==
    (IsDict(content) /\ Called(parts)
        /\ TextCount(content) + Len(RefsOf(content, "images"))
                + Len(RefsOf(content, "videos")) > 0) =>
        /\ parts.ok
        /\ IsList(parts.v)
        /\ LET ps == parts.v.v
               nt == TextCount(content)
               im == RefsOf(content, "images")
               vi == RefsOf(content, "videos")
           IN  /\ Len(ps) = nt + Len(im) + Len(vi)
               /\ nt = 1 => ps[1] = content.v["text"]
               /\ \A i \in 1..Len(im) : ps[nt + i] = _load_image(im[i].v, fs)
               /\ \A i \in 1..Len(vi) : ps[nt + Len(im) + i] = _load_video(vi[i].v, fs)
               /\ (im = <<>> /\ vi = <<>>) => ps = <<content.v["text"]>>

\* a text, two different images of which the first one is on disk, and a video
C9_Witness ==
    /\ IsDict(content)
    /\ Called(parts)
    /\ DOMAIN content.v = {"text", "images", "videos"}
    /\ Len(RefsOf(content, "images")) = 2
    /\ RefsOf(content, "images")[1] = PyStr("a.png")
    /\ RefsOf(content, "images")[2] = PyStr("./b.jpg")
    /\ Len(RefsOf(content, "videos")) = 1
    /\ "a.png" \in fs
    /\ Len(parts.v.v) = 4

\* C10: a StructuredContent with no text, no image reference and no video
\* reference is returned as it is, and nothing is raised.
C10_EmptyReturnedUnmodified ==
    (IsDict(content) /\ Called(parts)
        /\ "text" \notin DOMAIN content.v
        /\ RefsOf(content, "images") = <<>>
        /\ RefsOf(content, "videos") = <<>>) =>
        parts = Ok(content)

\* a StructuredContent whose image and video lists are both empty
C10_Witness ==
    /\ IsDict(content)
    /\ DOMAIN content.v = {"images", "videos"}
    /\ RefsOf(content, "images") = <<>>
    /\ RefsOf(content, "videos") = <<>>
    /\ parts = Ok(content)

-----------------------------------------------------------------------------
(* Properties of media resolution, under SpecNormalize *)

\* a reference is an http(s) URL
IsUrl(ref) == StartsWith(ref, "http://") \/ StartsWith(ref, "https://")

\* an image reference resolves in environment e: the URL can be fetched, the
\* file exists and can be read
ImageResolves(ref, e) == IF IsUrl(ref) THEN ref \in e ELSE Readable(ref, e)

\* a part is a placeholder: a record holding only a text
IsPlaceholder(p) == IsDict(p) /\ DOMAIN p.v = {"text"} /\ IsStr(p.v["text"])

\* a StructuredContent was normalised to a list of parts
DictNormalized ==
    /\ IsDict(content)
    /\ Called(parts)
    /\ TextCount(content) + Len(RefsOf(content, "images"))
            + Len(RefsOf(content, "videos")) > 0

\* C11: an image or video reference that cannot be read or fetched does not
\* make normalisation raise; in the position of that reference there is a
\* placeholder text part that contains the literal reference string, and the
\* other references are processed (one part per reference).
C11_PlaceholderHoldsReference ==
    DictNormalized =>
        /\ parts.ok
        /\ LET ps == parts.v.v
               nt == TextCount(content)
               im == RefsOf(content, "images")
               vi == RefsOf(content, "videos")
           IN  /\ Len(ps) = nt + Len(im) + Len(vi)
               /\ \A i \in 1..Len(im) :
                     ~ImageResolves(im[i].v, fs) =>
                         /\ IsPlaceholder(ps[nt + i])
                         /\ Contains(ps[nt + i].v["text"].v, im[i].v)
               /\ \A i \in 1..Len(vi) :
                     ~Readable(vi[i].v, fs) =>
                         /\ IsPlaceholder(ps[nt + Len(im) + i])
                         /\ Contains(ps[nt + Len(im) + i].v["text"].v, vi[i].v)

\* the text a placeholder part holds
PlaceholderText(p) == p.v["text"].v

\* C12 as stated: on every read or fetch failure, a failed fetch of an
\* http(s) image URL included, the placeholder is exactly "[Image: <reference>]"
\* for an image reference and "[Video: <reference>]" for a video reference.
C12_PlaceholderForm ==
    (DictNormalized /\ parts.ok) =>
        LET ps == parts.v.v
            nt == TextCount(content)
            im == RefsOf(content, "images")
            vi == RefsOf(content, "videos")
        IN  /\ \A i \in 1..Len(im) :
                  ~ImageResolves(im[i].v, fs) =>
                      /\ IsPlaceholder(ps[nt + i])
                      /\ PlaceholderText(ps[nt + i]) = "[Image: " \o im[i].v \o "]"
            /\ \A i \in 1..Len(vi) :
                  ~Readable(vi[i].v, fs) =>
                      /\ IsPlaceholder(ps[nt + Len(im) + i])
                      /\ PlaceholderText(ps[nt + Len(im) + i]) = "[Video: " \o vi[i].v \o "]"

\* C12 as amended: on a failed fetch of an http(s) image URL the placeholder
\* is exactly "[Image URL: <reference>]"; on a missing or unreadable local
\* image it is "[Image: <path>]" and on a missing or unreadable video
\* "[Video: <path>]", <path> being the reference as pathlib renders it, which
\* is the reference itself when it is in pathlib's normal form.
C12_PlaceholderFormByKind ==
    (DictNormalized /\ parts.ok) =>
        LET ps == parts.v.v
            nt == TextCount(content)
            im == RefsOf(content, "images")
            vi == RefsOf(content, "videos")
        IN  /\ \A i \in 1..Len(im) :
                  ~ImageResolves(im[i].v, fs) =>
                      /\ IsPlaceholder(ps[nt + i])
                      /\ PlaceholderText(ps[nt + i]) =
                            IF IsUrl(im[i].v) THEN "[Image URL: " \o im[i].v \o "]"
                            ELSE "[Image: " \o PathStr(im[i].v) \o "]"
                      /\ im[i].v = "a.png" => PlaceholderText(ps[nt + i]) = "[Image: a.png]"
            /\ \A i \in 1..Len(vi) :
                  ~Readable(vi[i].v, fs) =>
                      /\ IsPlaceholder(ps[nt + Len(im) + i])
                      /\ PlaceholderText(ps[nt + Len(im) + i]) = "[Video: " \o PathStr(vi[i].v) \o "]"
                      /\ vi[i].v = "v.mp4" => PlaceholderText(ps[nt + Len(im) + i]) = "[Video: v.mp4]"

\* a URL that cannot be fetched, then an image that exists and cannot be read
C12_Witness ==
    /\ DictNormalized
    /\ parts.ok
    /\ RefsOf(content, "images") = <<PyStr("http://h/c"), PyStr("./b.jpg")>>
    /\ "http://h/c" \notin fs
    /\ "b.jpg" \in fs
    /\ LET nt == TextCount(content)
       IN  /\ IsPlaceholder(parts.v.v[nt + 1])
           /\ IsPlaceholder(parts.v.v[nt + 2])

-----------------------------------------------------------------------------
(* Properties of model selection, under SpecSelect *)

\* a content structurally holds a visual indicator: a StructuredContent with
\* an "images" or a "videos" field, a ContentPartList with an item whose
\* discriminator is "image_url", "image" or "video"
HasVisualIndicator(c) ==
    \/ IsDict(c) /\ ({"images", "videos"} \cap DOMAIN c.v) # {}
    \/ /\ IsList(c)
       /\ \E i \in 1..Len(c.v) :
            /\ IsDict(c.v[i])
            /\ "type" \in DOMAIN c.v[i].v
            /\ \E d \in {"image_url", "image", "video"} : c.v[i].v["type"] = PyStr(d)

\* some turn of the conversation holds a visual indicator
AnyVisualTurn == \E i \in 1..Len(messages) : HasVisualIndicator(messages[i].content)

\* C13: with a visual indicator in some turn or the multimodal flag set, the
\* selector returns the multimodal model when the configured model name
\* contains "1.5" and the vision model otherwise; with neither, it returns
\* the text model.
C13_SelectionRule ==
    selected_model # "none" =>
        IF AnyVisualTurn \/ ai.enable_multimodal
        THEN IF ai.model_name = "gemini-1.5-pro"
             THEN selected_model = "multimodal_model"
             ELSE selected_model = "vision_model"
        ELSE selected_model = "text_model"

\* a text turn and a turn whose only visual indicator is an item of
\* discriminator "video", the multimodal flag off, a model that is not "1.5"
C13_Witness ==
    /\ selected_model = "vision_model"
    /\ ~ai.enable_multimodal
    /\ ai.model_name = "gemini-pro"
    /\ Len(messages) = 2
    /\ messages[1] = HumanMessage(PyStr("hi"))
    /\ messages[2] = HumanMessage(PyList(<<VideoItem>>))

-----------------------------------------------------------------------------
(* Properties of the usage ledger, under Spec *)

\* the ledger before a step is a prefix of the ledger after it
LedgerKept ==
    /\ Len(token_usage_log') >= Len(token_usage_log)
    /\ SubSeq(token_usage_log', 1, Len(token_usage_log)) = token_usage_log

C15_LedgerOnlyOnSuccess ==
    [][/\ call'.path = "failure" => token_usage_log' = token_usage_log
       /\ call'.path = "success" =>
            /\ Len(token_usage_log') = Len(token_usage_log) + 1
            /\ SubSeq(token_usage_log', 1, Len(token_usage_log)) = token_usage_log
            /\ token_usage_log'[Len(token_usage_log')].step_name = call'.step_name
            /\ call'.step_name \in StepNames]_vars

\* two successful calls: two entries, the later one labelled by the later call
C15_Witness ==
    /\ call.n = 2
    /\ call.path = "success"
    /\ Len(token_usage_log) = 2
    /\ token_usage_log[2].step_name = call.step_name

-----------------------------------------------------------------------------
(* Properties of the secondary-asset trigger, under SpecTrigger *)

\* the image and the video trigger phrases
ImagePhrases ==
    {"generate image", "create image", "make image", "draw", "visualize", "diagram",
     "chart", "graph", "mockup", "ui design", "logo", "icon", "illustration"}
VideoPhrases ==
    {"generate video", "create video", "make video", "animation", "demo video",
     "tutorial video", "walkthrough", "presentation"}

\* the text holds one of the phrases, whatever the case of its letters
Matches(text, phrases) == \E ph \in phrases : Contains(Lower(text), ph)

\* C16: a response text with none of the image and video trigger phrases is
\* returned unchanged and no asset subroutine is called (none leaves its
\* directory behind), whatever the feature toggles are.
C16_NoPhraseNoChange ==
    (enhanced.ok /\ ~Matches(response_text, ImagePhrases)
                 /\ ~Matches(response_text, VideoPhrases)) =>
        /\ enhanced.v.text = response_text
        /\ enhanced.v.calls = <<>>
        /\ fs = {}

\* a text without a phrase, both toggles on
C16_Witness ==
    /\ enhanced.ok
    /\ response_text = "All done."
    /\ ai.enable_image_generation
    /\ ai.enable_video_generation
    /\ enhanced.v.text = "All done."

\* how often the text sub occurs in the text s
Count(s, sub) ==
    Cardinality({i \in 1..(Len(s) - Len(sub) + 1) : SubSeq(s, i, i + Len(sub) - 1) = sub})

\* the elements of a sequence
Range(seq) == {seq[i] : i \in 1..Len(seq)}

\* the image trigger, the video trigger fires on the response text
ImageTriggered == ai.enable_image_generation /\ Matches(response_text, ImagePhrases)
VideoTriggered == ai.enable_video_generation /\ Matches(response_text, VideoPhrases)

\* C17 as stated: when the response text matches an image trigger phrase and
\* image generation is enabled, the returned text has a "## Generated Images"
\* section appended, an empty one when no asset was produced; likewise a
\* "## Generated Videos" section on a video match with video generation on.
C17_SectionAppended ==
    enhanced.ok =>
        /\ ImageTriggered => Count(enhanced.v.text, "## Generated Images") =
                                Count(response_text, "## Generated Images") + 1
        /\ VideoTriggered => Count(enhanced.v.text, "## Generated Videos") =
                                Count(response_text, "## Generated Videos") + 1

\* C17 as amended: when the response text matches an image trigger phrase and
\* image generation is enabled, the image subroutine is called, and a
\* "## Generated Images" section with one markdown image reference per path is
\* appended only if it returned at least one path; likewise the video
\* subroutine and a "## Generated Videos" section. When no asset was produced
\* nothing is appended, and the subroutines of this adapter produce none, so
\* the returned text is the response text.
C17_SectionOnlyForProducedPaths ==
    enhanced.ok =>
        /\ ImageTriggered => "generate_images_from_response" \in Range(enhanced.v.calls)
        /\ VideoTriggered => "generate_videos_from_response" \in Range(enhanced.v.calls)
        /\ enhanced.v.text = response_text
        /\ \A imgs \in AssetPathLists, vids \in AssetPathLists :
              LET t == AppendSections(response_text, imgs, vids)
                  more(x) == Count(t, x) - Count(response_text, x)
              IN  /\ StartsWith(t, response_text)
                  /\ more("\n\n## Generated Images\n") = (IF imgs = <<>> THEN 0 ELSE 1)
                  /\ more("\n\n## Generated Videos\n") = (IF vids = <<>> THEN 0 ELSE 1)
                  /\ more("![Generated Image](") = Len(imgs)
                  /\ more("[Generated Video](") = Len(vids)
                  /\ \A i \in 1..Len(imgs) :
                        Count(t, "![Generated Image](" \o imgs[i] \o ")\n") >= 1
                  /\ \A i \in 1..Len(vids) :
                        Count(t, "[Generated Video](" \o vids[i] \o ")\n") >= 1

\* the scenario of the spec: "Here is a diagram of the architecture" with
\* image generation enabled; the image subroutine was called
C17_Witness ==
    /\ enhanced.ok
    /\ response_text = "Here is a diagram of the architecture"
    /\ ai.enable_image_generation
    /\ enhanced.v.calls = <<"generate_images_from_response">>
    /\ "generated_assets/gemini_gen_code" \in fs

\* where the text sub first occurs in the text s, 0 when it does not
IndexOf(s, sub) ==
    LET at == {i \in 1..(Len(s) - Len(sub) + 1) : SubSeq(s, i, i + Len(sub) - 1) = sub}
    IN  IF at = {} THEN 0 ELSE CHOOSE i \in at : \A j \in at : i <= j

\* C18: the image and the video trigger are independent: the image
\* subroutine is called exactly when the response text as given matches an
\* image phrase and image generation is on, the video subroutine exactly when
\* the response text as given matches a video phrase and video generation is
\* on, whatever the other trigger did; both may be called on one response,
\* the image one first, and an images section precedes a videos section.
C18_TriggersIndependent ==
    enhanced.ok =>
        /\ ("generate_images_from_response" \in Range(enhanced.v.calls)) <=> ImageTriggered
        /\ ("generate_videos_from_response" \in Range(enhanced.v.calls)) <=> VideoTriggered
        /\ (ImageTriggered /\ VideoTriggered) =>
              enhanced.v.calls =
                  <<"generate_images_from_response", "generate_videos_from_response">>
        /\ \A imgs \in AssetPathLists \ {<<>>}, vids \in AssetPathLists \ {<<>>} :
              LET t == AppendSections(response_text, imgs, vids)
              IN  /\ IndexOf(t, "\n\n## Generated Images\n") > Len(response_text)
                  /\ IndexOf(t, "\n\n## Generated Videos\n")
                        > IndexOf(t, "\n\n## Generated Images\n")

\* both triggers fire on one response
C18_Witness ==
    /\ enhanced.ok
    /\ response_text = "a chart, then an animation"
    /\ ai.enable_image_generation
    /\ ai.enable_video_generation
    /\ Len(enhanced.v.calls) = 2

-----------------------------------------------------------------------------
(* Properties of construction, under SpecConstruct *)

\* no credential: no key argument (or an empty one) and no GOOGLE_API_KEY in
\* the environment (or an empty one)
NoCredential ==
    /\ init_args.google_api_key \in {PyNone, PyStr("")}
    /\ environ \in {PyNone, PyStr("")}

\* C19: constructing an adapter with no credential fails with a ValueError
\* before the provider client is configured, before any model endpoint is
\* created and before the usage ledger exists; no instance is produced.
C19_NoCredentialAborts ==
    (constructed # NoResult /\ NoCredential) =>
        /\ constructed.raised = "ValueError"
        /\ constructed.effects = <<>>
        /\ DOMAIN constructed = {"raised", "effects"}
        /\ ai = CHOOSE a \in Adapters : TRUE

\* no key argument and no key in the environment: the constructor raised
C19_Witness ==
    /\ init_args \in InitArgs
    /\ init_args.google_api_key = PyNone
    /\ environ = PyNone
    /\ constructed # NoResult
    /\ constructed.raised = "ValueError"

-----------------------------------------------------------------------------
(* Properties of the success path, under Spec *)

\* the latest entry of the ledger
LastEntry == token_usage_log[Len(token_usage_log)]

\* C20: on the success path the response text is obtained, passed through
\* the trigger, recorded in the ledger as the trigger returned it, and then
\* appended as the Assistant turn with that same text: the usage record was
\* made of the conversation that did not yet hold the Assistant turn.
C20_RecordThenAppend ==
    call.path = "success" =>
        /\ token_usage_log # <<>>
        /\ messages # <<>>
        /\ LET last == messages[Len(messages)]
           IN  /\ last.role = "ai"
               /\ IsStr(last.content)
               /\ StartsWith(last.content.v, call.provider_text)
               /\ LastEntry.answer = last.content.v
               /\ LastEntry.step_name = call.step_name
               /\ LastEntry.n_messages = Len(messages) - 1
               /\ LastEntry.n_messages = Len(call.before) + Len(PromptTurn)
               /\ ai.enable_image_generation =>
                     "generated_assets/" \o call.step_name \in fs

\* a successful next with a prompt on a conversation of two turns, on an
\* adapter whose image trigger fired
C20_Witness ==
    /\ call.op = "next"
    /\ call.path = "success"
    /\ Truthy(call.prompt)
    /\ Len(call.before) = 2
    /\ ai.enable_image_generation
    /\ LastEntry.n_messages = 3
    /\ Len(messages) = 4

-----------------------------------------------------------------------------
(* Properties of the main pass of translation, under SpecTranslate *)

\* the turns of the conversation that are not System turns, in order
NonSystem == SelectSeq(messages, LAMBDA m : m.role # "system")

\* the entry a turn is to become: normalize(content) as the parts of a "user"
\* entry (a single part when it is not a list), the content itself as the
\* one part of a "model" entry
EntryFor(m) ==
    IF m.role = "human"
    THEN LET n == _process_multimodal_content(m.content, fs).v
         IN  [role |-> "user", parts |-> IF IsList(n) THEN n.v ELSE <<n>>]
    ELSE [role |-> "model", parts |-> <<m.content>>]

\* C21: translate emits exactly one entry per turn that is not a System
\* turn, in input order: a User turn becomes a "user" entry whose parts are
\* normalize(content), an Assistant turn a "model" entry whose one part is
\* its content as it is. This is what the main pass builds; in the request
\* returned only the first part of the first "user" entry may differ, by the
\* System text folded into it.
C21_OneEntryPerTurn ==
    gemini_messages.ok =>
        LET pass == MainPass(messages, 1, <<>>, fs)
            g == gemini_messages.v
        IN  /\ pass.ok
            /\ Len(pass.v) = Len(NonSystem)
            /\ \A k \in 1..Len(NonSystem) : pass.v[k] = EntryFor(NonSystem[k])
            /\ Len(g) = Len(NonSystem)
            /\ \A k \in 1..Len(g) :
                  /\ g[k].role = pass.v[k].role
                  /\ Len(g[k].parts) = Len(pass.v[k].parts)
                  /\ \A j \in 1..Len(g[k].parts) :
                        (\/ j # 1 \/ SystemTurns = {}
                         \/ \E i \in UserEntries(g) : i < k
                         \/ g[k].role # "user") =>
                            g[k].parts[j] = pass.v[k].parts[j]

\* an Assistant turn, a System turn and a User turn whose content is a list
\* of two items: two entries, the second of two parts
C21_Witness ==
    /\ gemini_messages.ok
    /\ Len(messages) = 3
    /\ messages[1].role = "ai"
    /\ messages[2].role = "system"
    /\ messages[3] = HumanMessage(PyList(<<ImageUrlItem, TextItem>>))
    /\ Len(gemini_messages.v) = 2
    /\ gemini_messages.v[1] = [role |-> "model", parts |-> <<PyStr("ok")>>]
    /\ Len(gemini_messages.v[2].parts) = 2

-----------------------------------------------------------------------------
(* Properties of the prompt of next, under SpecPrompt *)

\* the last call of next was given a prompt that is neither absent nor empty
PromptGiven == call.prompt \notin {PyNone, PyStr(""), PyList(<<>>)}

\* the model the selector is to return for a conversation with or without a
\* visual indicator
ModelFor(visual) ==
    IF visual \/ ai.enable_multimodal
    THEN IF ai.model_name = "gemini-1.5-pro" THEN "multimodal_model" ELSE "vision_model"
    ELSE "text_model"

\* part p is part q, possibly behind a text folded in front of it
EndsWithPart(p, q) ==
    \/ p = q
    \/ /\ IsStr(p) /\ IsStr(q) /\ Len(p.v) >= Len(q.v)
       /\ SubSeq(p.v, Len(p.v) - Len(q.v) + 1, Len(p.v)) = q.v

\* C25: next with a non-empty prompt appends a User turn holding the prompt
\* before the request is built and the model is selected: the turn is the
\* last entry of the request, the selector sees it, and it stays in the
\* conversation when the provider call fails (and when next raises). With an
\* absent or empty prompt no User turn is appended.
C25_PromptTurnFirst ==
    call.op = "next" =>
        LET n == Len(call.before)
            g == gemini_messages.v
            want == EntryFor(HumanMessage(call.prompt))
        IN  IF PromptGiven
            THEN /\ Len(messages) > n
                 /\ messages[n + 1] = HumanMessage(call.prompt)
                 /\ \A i \in (n + 2)..Len(messages) : messages[i].role = "ai"
                 /\ gemini_messages.ok =>
                        /\ g # <<>>
                        /\ g[Len(g)].role = "user"
                        /\ Len(g[Len(g)].parts) = Len(want.parts)
                        /\ \A j \in 1..Len(want.parts) :
                              EndsWithPart(g[Len(g)].parts[j], want.parts[j])
                 /\ call.model # "none" =>
                        call.model =
                            ModelFor(\/ HasVisualIndicator(call.prompt)
                                     \/ \E i \in 1..n :
                                            HasVisualIndicator(call.before[i].content))
            ELSE /\ \A i \in (n + 1)..Len(messages) : messages[i].role = "ai"
                 /\ gemini_messages.ok => Len(g) = Len(SelectSeq(call.before,
                                                LAMBDA m : m.role # "system"))
                 /\ call.model # "none" =>
                        call.model =
                            ModelFor(\E i \in 1..n :
                                         HasVisualIndicator(call.before[i].content))

\* the provider call failed on a text conversation of an adapter without the
\* multimodal flag, whose prompt alone holds an image: the prompt turn made
\* the selector leave the text model, and it is in the conversation
C25_Witness ==
    /\ call.op = "next"
    /\ call.path = "failure"
    /\ call.prompt = PyList(<<ImageUrlItem>>)
    /\ ~ai.enable_multimodal
    /\ call.before = <<HumanMessage(PyStr("hi"))>>
    /\ call.model \in {"multimodal_model", "vision_model"}
    /\ Len(messages) = 3
    /\ messages[2] = HumanMessage(call.prompt)
    /\ Len(gemini_messages.v) = 2

\* a call with an empty prompt returned with nothing but the Assistant turn
C25_WitnessEmpty ==
    /\ call.op = "next"
    /\ call.prompt = PyStr("")
    /\ call.path = "success"
    /\ Len(messages) = Len(call.before) + 1

-----------------------------------------------------------------------------
(* Properties of the factory, under SpecCreate *)

\* a credential is at hand: given as an argument, or in the environment
CredentialAtHand ==
    \/ \E k \in init_args.kwargs.google_api_key : k \notin {PyNone, PyStr("")}
    \/ environ \notin {PyNone, PyStr("")}

\* C26: with a credential at hand, create_gemini_ai returns an adapter whose
\* model name is the model_name given, "gemini-1.5-pro" when none is given,
\* for every model_type; the adapter is a GeminiMultimodalAI for
\* "multimodal" and a GeminiAI for every other model_type.
C26_NameGivenOrDefault ==
    (constructed # NoResult /\ CredentialAtHand) =>
        /\ constructed.new.raised = "none"
        /\ constructed.new.adapter.model_name =
               IF init_args.model_name = PyNone THEN "gemini-1.5-pro"
               ELSE init_args.model_name.v
        /\ constructed.cls =
               IF init_args.model_type = "multimodal" THEN "GeminiMultimodalAI"
               ELSE "GeminiAI"

-----------------------------------------------------------------------------
(* Properties of the orchestration steps, under SpecSteps *)

\* C22: when a step combined two generation passes, its result holds the
\* paths of both; a path of the later pass has the later pass's content, and
\* a path of the first pass alone keeps its content.
C22_LaterPassWins ==
    (step.op \in {"gemini_gen_code", "gemini_generate_documentation"}
        /\ Len(step.passes) = 2) =>
        /\ step.result.ok
        /\ DOMAIN step.result.v = DOMAIN step.passes[1] \cup DOMAIN step.passes[2]
        /\ \A p \in DOMAIN step.passes[2] : step.result.v[p] = step.passes[2][p]
        /\ \A p \in DOMAIN step.passes[1] \ DOMAIN step.passes[2] :
              step.result.v[p] = step.passes[1][p]

\* code generation whose first response gave PROJECT_STRUCTURE.md and
\* requirements.txt, and whose asset pass gave another PROJECT_STRUCTURE.md
C22_Witness ==
    /\ step.op = "gemini_gen_code"
    /\ Len(step.passes) = 2
    /\ "PROJECT_STRUCTURE.md" \in DOMAIN step.passes[1] \cap DOMAIN step.passes[2]
    /\ step.passes[1]["PROJECT_STRUCTURE.md"] = "old"
    /\ step.passes[2]["PROJECT_STRUCTURE.md"] # "old"
    /\ "requirements.txt" \in DOMAIN step.passes[1] \ DOMAIN step.passes[2]
    /\ step.result.v["requirements.txt"] = "flask"

\* documentation whose response and visual pass both gave ARCHITECTURE_VISUAL.md
C22_WitnessDocs ==
    /\ step.op = "gemini_generate_documentation"
    /\ Len(step.passes) = 2
    /\ "ARCHITECTURE_VISUAL.md" \in DOMAIN step.passes[1] \cap DOMAIN step.passes[2]
    /\ step.passes[1]["ARCHITECTURE_VISUAL.md"] # step.passes[2]["ARCHITECTURE_VISUAL.md"]

\* the most provider requests a step may make
RequestLimit ==
    IF step.op = "gemini_gen_code"
    THEN IF step.flag /\ step.cls = "GeminiMultimodalAI" THEN 3 ELSE 1
    ELSE IF step.op = "gemini_generate_documentation" THEN 2
    ELSE 1

\* C23: no step repeats a provider request after a failure. Each start call
\* of a step makes exactly one provider request, no two requests of a step
\* are for the same step name, and the requests of a step are bounded
\* whatever fails: gemini_gen_code makes at most 3, exactly 1 when
\* generate_assets is false or the adapter is not a GeminiMultimodalAI;
\* gemini_generate_documentation at most 2; gemini_create_tutorials exactly 1.
C23_NoRetry ==
    step.op # "none" =>
        /\ Len(step.requests) = step.starts
        /\ \A i, j \in 1..Len(step.requests) :
              i # j => step.requests[i].step_name # step.requests[j].step_name
        /\ Len(step.requests) <= RequestLimit
        /\ (step.op = "gemini_gen_code" /\ RequestLimit = 1) => Len(step.requests) = 1
        /\ step.op = "gemini_create_tutorials" => Len(step.requests) = 1

\* code generation made its three requests, the second of which failed
C23_Witness ==
    /\ step.op = "gemini_gen_code"
    /\ Len(step.requests) = 3
    /\ step.requests[1].ok
    /\ ~step.requests[2].ok
    /\ step.requests[2].step_name = "project_structure"
    /\ step.requests[3].step_name = "setup_guide"

\* documentation whose two requests both failed
C23_WitnessDocs ==
    /\ step.op = "gemini_generate_documentation"
    /\ Len(step.requests) = 2
    /\ \A i \in 1..2 : ~step.requests[i].ok

\* the prompt of the step holds no image reference
NoImages == step.prompt.image_urls \in {PyNone, PyDict(EmptyDict)}

\* the adapter of the step has the vision capability: its model name
\* contains "vision" or "1.5"
HasVision == ai.model_name \in {"gemini-1.5-pro", "gemini-pro-vision"}

\* C24: gemini_analyze_images never raises. Without an image reference in
\* the prompt, or on an adapter without the vision capability, it invokes
\* nothing and returns the empty mapping; otherwise it invokes the model
\* exactly once and returns a mapping with the key "image_analysis" or the
\* key "error".
C24_AnalysisGuarded ==
    step.op = "gemini_analyze_images" =>
        /\ step.result.ok
        /\ IF NoImages \/ ~HasVision
           THEN /\ step.starts = 0
                /\ step.requests = <<>>
                /\ step.result.v = EmptyFiles
           ELSE /\ step.starts = 1
                /\ Len(step.requests) = 1
                /\ {"image_analysis", "error"} \cap DOMAIN step.result.v # {}

\* an adapter with vision analysed a prompt with an image, the provider
\* failed: one request, and the fallback text under "image_analysis"
C24_Witness ==
    /\ step.op = "gemini_analyze_images"
    /\ ~NoImages
    /\ HasVision
    /\ Len(step.requests) = 1
    /\ ~step.requests[1].ok
    /\ step.result.ok
    /\ "image_analysis" \in DOMAIN step.result.v

\* an adapter without vision was given a prompt with an image
C24_WitnessNoVision ==
    /\ step.op = "gemini_analyze_images"
    /\ ~NoImages
    /\ ~HasVision
    /\ step.result = Ok(EmptyFiles)
    /\ step.starts = 0

\* the log of the analysis could not be written: the key "error"
C24_WitnessError ==
    /\ step.op = "gemini_analyze_images"
    /\ step.result.ok
    /\ "error" \in DOMAIN step.result.v

-----------------------------------------------------------------------------
(* Properties of the window, under SpecGui *)

\* the workers that were started and have not finished
LiveWorkers == {i \in 1..Len(gui.threads) : gui.threads[i].pc # "finished"}

\* the workers whose generation subprocess is running
RunningProcesses == {i \in 1..Len(gui.threads) : gui.threads[i].pc = "running"}

\* C27: while a worker is live, every button that starts a generation is
\* disabled, so that no second worker is started and at most one generation
\* subprocess runs at any time.
C27_OneGenerationAtATime ==
    /\ LiveWorkers # {} => gui.generate_btn = "disabled" /\ gui.first_btn = "disabled"
    /\ Cardinality(LiveWorkers) <= 1
    /\ Cardinality(RunningProcesses) <= 1

-----------------------------------------------------------------------------
(* Properties of the recent-projects list, under SpecRecent *)

\* the positions of x in the list l
PositionsIn(l, x) == {i \in 1..Len(l) : l[i] = x}

\* C29: after add_recent_project calls on a list without duplicates, the
\* list has no duplicates and at most 10 entries, its first entry is the
\* project added last, and the other entries are entries of the list before
\* the call, in the order they had there.
C29_RecentListKept ==
    recent.op = "add" =>
        /\ \A i, j \in 1..Len(recent.list) : recent.list[i] = recent.list[j] => i = j
        /\ Len(recent.list) <= 10
        /\ recent.list # <<>>
        /\ recent.list[1] = recent.added
        /\ \A i, j \in 2..Len(recent.list) :
              i < j =>
                  \E a \in PositionsIn(recent.before, recent.list[i]),
                     b \in PositionsIn(recent.before, recent.list[j]) : a < b

\* a project in the middle of a full list was added again
C29_Witness ==
    /\ recent.op = "add"
    /\ Len(recent.before) = 10
    /\ PositionsIn(recent.before, recent.added) = {5}
    /\ Len(recent.list) = 10
    /\ recent.list[1] = recent.added
    /\ recent.list[5] = recent.before[4]
    /\ recent.list[6] = recent.before[6]

\* a new project was added to a full list, whose last entry is dropped
C29_WitnessFull ==
    /\ recent.op = "add"
    /\ Len(recent.before) = 10
    /\ PositionsIn(recent.before, recent.added) = {}
    /\ Len(recent.list) = 10
    /\ PositionsIn(recent.list, recent.before[10]) = {}

-----------------------------------------------------------------------------
(* Properties of run_simple.main, under SpecRun *)

\* a key is found: in the .env file, or else in the environment, first under
\* GOOGLE_API_KEY and then under GEMINI_API_KEY
KeyFound ==
    LET found(k) == IF k \in DOMAIN run.dotenv THEN run.dotenv[k] # ""
                    ELSE run.env[k] \notin {PyNone, PyStr("")}
    IN  found("GOOGLE_API_KEY") \/ found("GEMINI_API_KEY")

\* main got as far as the direct run
DirectAttempted == run.argc >= 2 /\ KeyFound

\* the message of the exception the direct run raised holds "grpc" or
\* "timeout" in some letter case
TransportMessages ==
    {"gRPC channel closed", "Timeout of 60.0s exceeded", "request timeout", "grpc unavailable"}

\* C28 as stated: the fallback runs only after UnicodeEncodeError or an
\* exception whose message contains "grpc" or "timeout" as written, and any
\* other exception of the direct run makes main return 1.
C28_FallbackOnlyOnExactMessage ==
    run.op = "main" =>
        /\ (\E i \in 1..Len(run.did.events) : run.did.events[i] = "fallback") =>
              \/ run.direct.kind = "UnicodeEncodeError"
              \/ Contains(run.direct.msg, "grpc") \/ Contains(run.direct.msg, "timeout")
        /\ (/\ DirectAttempted
            /\ run.direct.kind \notin {"returned", "UnicodeEncodeError"}
            /\ ~Contains(run.direct.msg, "grpc") /\ ~Contains(run.direct.msg, "timeout")) =>
              run.did = [events |-> <<"direct">>, returned |-> Ok(1)]

\* C28, amended: main attempts the direct run first, and the fallback at
\* most once and only after it. The fallback runs exactly when the direct
\* run raised UnicodeEncodeError, or an Exception whose message holds "grpc"
\* or "timeout" in any letter case; any other Exception makes main return 1
\* without a fallback, and an exception that is no Exception leaves main
\* without a fallback. With no project argument or no API key main returns 1
\* and attempts neither run.
C28_FallbackAfterEncodingOrTransport ==
    run.op = "main" =>
        IF ~DirectAttempted
        THEN run.did = [events |-> <<>>, returned |-> Ok(1)]
        ELSE /\ run.did.events \in {<<"direct">>, <<"direct", "fallback">>}
             /\ run.did.events = <<"direct", "fallback">> <=>
                    \/ run.direct.kind = "UnicodeEncodeError"
                    \/ run.direct.kind = "Exception" /\ run.direct.msg \in TransportMessages
             /\ (run.direct.kind = "Exception" /\ run.direct.msg \notin TransportMessages) =>
                    run.did.returned = Ok(1)
             /\ run.direct.kind = "KeyboardInterrupt" => ~run.did.returned.ok
             /\ run.direct.kind = "returned" => run.did.returned = Ok(0)

\* the direct run raised an exception whose message names gRPC in mixed
\* case: the fallback ran, and main returned its code
C28_Witness ==
    /\ run.op = "main"
    /\ run.direct = [kind |-> "Exception", msg |-> "gRPC channel closed"]
    /\ run.did.events = <<"direct", "fallback">>
    /\ run.fallback = [kind |-> "exited", returncode |-> 2]
    /\ run.did.returned = Ok(2)

\* the only key is an empty GOOGLE_API_KEY line of the .env file, which
\* replaces the key of the environment: neither run is attempted
C28_WitnessNoKey ==
    /\ run.op = "main"
    /\ run.argc = 2
    /\ run.env["GOOGLE_API_KEY"] = PyStr("key")
    /\ run.env["GEMINI_API_KEY"] = PyNone
    /\ run.dotenv = ("GOOGLE_API_KEY" :> "")
    /\ run.did = [events |-> <<>>, returned |-> Ok(1)]

-----------------------------------------------------------------------------
(* Properties of the cleanup script, under SpecCleanup *)

\* the paths the cleanup is to keep: the essential files, the essential
\* directories and projects/analysis
Protected ==
    {<<essential_files[i]>> : i \in 1..Len(essential_files)}
        \cup {<<"gpt_engineer">>, <<"analysis">>, <<".gpteng">>, <<"projects", "analysis">>}

\* removing p can succeed: nothing locked is p or below it
Removable(p) == \A q \in cleanup.locked : ~Under(q, p)

\* the files and directories the script is to remove that were on the disk
\* and could be removed
ListedFilesAtHand ==
    {<<files_to_remove[i]>> : i \in 1..Len(files_to_remove)}
        \cap {p \in DOMAIN cleanup.before : cleanup.before[p] = "file" /\ Removable(p)}
ListedDirsAtHand ==
    {dirs_to_remove[i] : i \in 1..Len(dirs_to_remove)}
        \cap {p \in DOMAIN cleanup.before : cleanup.before[p] = "dir" /\ Removable(p)}
ProjectDirsAtHand ==
    {p \in DOMAIN cleanup.before :
        /\ Len(p) = 2 /\ p[1] = "projects" /\ p[2] # "analysis"
        /\ cleanup.before[<<"projects">>] = "dir"
        /\ cleanup.before[p] = "dir" /\ Removable(p)}
PycacheDirsAtHand ==
    {p \in DOMAIN cleanup.before :
        p[Len(p)] = "__pycache__" /\ cleanup.before[p] = "dir" /\ Removable(p)}

\* some removal failed
SomeRemovalFailed ==
    \E q \in cleanup.locked : q \in DOMAIN cleanup.before /\ q \in DOMAIN cleanup.did.after

\* C30: whatever is on the disk, the script leaves every essential file,
\* every essential directory (gpt_engineer, analysis, .gpteng) and
\* projects/analysis in place; a removal that fails does not keep the other
\* listed files and directories, the other project directories and (when
\* the walk is reached) the other __pycache__ directories from being
\* removed; and the disk is touched only when the answer, in lower case and
\* without the blanks around it, is y or yes.
C30_EssentialsKept ==
    cleanup.op = "main" =>
        /\ \A p \in Protected \cap DOMAIN cleanup.before :
              p \in DOMAIN cleanup.did.after /\ cleanup.did.after[p] = cleanup.before[p]
        /\ cleanup.did.ran =>
              /\ \A p \in ListedFilesAtHand \cup ListedDirsAtHand \cup ProjectDirsAtHand :
                    p \notin DOMAIN cleanup.did.after
              /\ ~cleanup.did.raised =>
                    \A p \in PycacheDirsAtHand : p \notin DOMAIN cleanup.did.after
        /\ cleanup.did.ran <=>
              cleanup.answer \in {"y", "yes", "Y", " YES "}
        /\ ~cleanup.did.ran => cleanup.did.after = cleanup.before /\ cleanup.did.exit = 0

\* README.md and projects/example could not be removed: Makefile, docs,
\* projects/mine and the __pycache__ directories are removed all the same,
\* the essentials and projects/analysis stay, and the script exits with 1
C30_Witness ==
    /\ cleanup.op = "main"
    /\ cleanup.answer = "yes"
    /\ cleanup.locked = {<<"README.md">>, <<"projects", "example">>}
    /\ <<"projects", "analysis", "__pycache__">> \in DOMAIN cleanup.before
    /\ SomeRemovalFailed
    /\ DOMAIN cleanup.did.after \cap
          {<<"Makefile">>, <<"docs">>, <<"projects", "mine">>,
           <<"gpt_engineer", "__pycache__">>,
           <<"projects", "analysis", "__pycache__">>} = {}
    /\ {<<"README.md">>, <<"projects", "example">>, <<"projects", "analysis">>,
        <<"gpt_engineer">>, <<".env">>, <<"LICENSE">>} \subseteq DOMAIN cleanup.did.after
    /\ cleanup.did.errors = 3
    /\ cleanup.did.exit = 1

\* the answer was no: nothing is removed
C30_WitnessCancelled ==
    /\ cleanup.op = "main"
    /\ cleanup.answer = "no"
    /\ ~cleanup.did.ran
    /\ <<"README.md">> \in DOMAIN cleanup.did.after

====
